---------------------------- MODULE Spec2Model ----------------------------
(***************************************************************************)
(* A model of the suspicion-scoring and coordination-detection engine of   *)
(* wikipedia-analyser (internal/analyzer: page.go, cross_page.go, user.go, *)
(* contribution.go).                                                       *)
(*                                                                         *)
(* Conventions.  Timestamps are whole seconds (the API format              *)
(* 2006-01-02T15:04:05Z has second granularity).  A string of the program  *)
(* is a sequence of one-character strings, so that strings.Contains and    *)
(* strings.ToLower are computed and not assumed.  A Go slice is a          *)
(* sequence; a Go map whose iteration order reaches the output is a        *)
(* nondeterministic choice of that order.                                  *)
(***************************************************************************)
EXTENDS Integers, Sequences, FiniteSets, TLC

VARIABLES
    pc,                 \* position of the running analysis: "input" until it has run, then "done"
    detailedHistory,    \* GetPageProfile: the revisions GetPageHistory returned (oldest first)
    editWarPeriods,     \* ConflictStats.EditWarPeriods
    pageRevisions,      \* GetPageProfile: the revisions GetPageRevisions returned
    recentRevisions,    \* GetPageProfile: profile.RecentRevisions
    allRevisions,       \* AnalyzePages: the accumulated []EditEvent
    pairAB,             \* detectMutualSupport's evaluation of the pair taken as (A, B)
    pairBA,             \* the evaluation of the same pair taken as (B, A)
    scored,             \* the entity a scoring function has just scored (none: <<>>)
    language,           \* client.Language()
    contributions,      \* GetUserProfile: the []WikiContribution the API returned
    revocations,        \* the []RevokedContribution detected (profile.RevokedContribs)
    recentContribs,     \* GetUserProfile: profile.RecentContribs
    pageProfiles,       \* AnalyzePages: the page profiles made from the fetched dataset
    runs,               \* the results of the runs of AnalyzePages made on the dataset
    analysis            \* AnalyzePages step by step: its position, accumulators and result

editWarVars == <<detailedHistory, editWarPeriods, pageRevisions, recentRevisions>>
supportVars == <<allRevisions, pairAB, pairBA>>
scoreVars   == <<scored>>
revokedVars == <<language, contributions, revocations, recentContribs>>
runVars     == <<pageProfiles, runs, analysis>>

vars == <<pc, editWarVars, supportVars, scoreVars, revokedVars, runVars>>

-----------------------------------------------------------------------------
(* Strings *)

UpperLetters == <<"A","B","C","D","E","F","G","H","I","J","K","L","M",
                  "N","O","P","Q","R","S","T","U","V","W","X","Y","Z">>

LowerLetters == <<"a","b","c","d","e","f","g","h","i","j","k","l","m",
                  "n","o","p","q","r","s","t","u","v","w","x","y","z">>

\* unicode.ToLower on one character
LowerChar(c) ==
    IF \E i \in 1..Len(UpperLetters) : UpperLetters[i] = c
    THEN LowerLetters[CHOOSE i \in 1..Len(UpperLetters) : UpperLetters[i] = c]
    ELSE c

\* strings.ToLower
ToLower(s) == [i \in 1..Len(s) |-> LowerChar(s[i])]

\* strings.Contains
Contains(s, sub) ==
    \E i \in 0..(Len(s) - Len(sub)) : SubSeq(s, i + 1, i + Len(sub)) = sub

\* for _, keyword := range keywords { if strings.Contains(comment, keyword) ...
ContainsAny(s, keywords) ==
    \E k \in 1..Len(keywords) : Contains(s, keywords[k])

-----------------------------------------------------------------------------
(* Durations *)

SecondsPerMinute == 60

SecondsPerHour == 3600

\* 24*time.Hour, in seconds
Day == 24 * SecondsPerHour

\* Go's int(x) on a float: truncation toward zero
TruncDiv(a, b) == IF a >= 0 THEN a \div b ELSE -((-a) \div b)

-----------------------------------------------------------------------------
(* PageAnalyzer.detectEditWarPeriods *)

windowSize == 5

\* A timestamp string that is not in the layout "2006-01-02T15:04:05Z"
MalformedTimestamp == -1

\* The zero time.Time, which time.Parse returns with its error; it lies far
\* before every timestamp (year 1 in Go, where Sub then saturates at about 292
\* years; 10000 days before the first timestamp here)
ZeroTime == -10000 * Day

\* startTime, _ := time.Parse("2006-01-02T15:04:05Z", ...)
ParseTime(timestamp) == IF timestamp = MalformedTimestamp THEN ZeroTime ELSE timestamp

\* QualifyingWindows with the comparison written < instead of <=.
QualifyingWindowsStrict(revisions) ==
    LET last == Len(revisions) - windowSize + 1
        starts == [i \in 1..(IF last > 0 THEN last ELSE 0) |-> i]
    IN  SelectSeq(starts,
            LAMBDA i : ParseTime(revisions[i + windowSize - 1].Timestamp)
                         - ParseTime(revisions[i].Timestamp) < Day)

\* The window start indexes (1-based) the loop appends a period for, in loop order.
\* The loop runs i = 0 .. len-windowSize; with fewer than windowSize revisions the
\* range is empty, which is the early return.
QualifyingWindows(revisions) ==
    LET last == Len(revisions) - windowSize + 1
        starts == [i \in 1..(IF last > 0 THEN last ELSE 0) |-> i]
    IN  SelectSeq(starts,
            LAMBDA i : ParseTime(revisions[i + windowSize - 1].Timestamp)
                         - ParseTime(revisions[i].Timestamp) <= Day)

\* WindowPeriod reading the start time at index 0 instead of index i.
WindowPeriodFromFirst(revisions, i) ==
    [StartTime     |-> ParseTime(revisions[1].Timestamp),
     EndTime       |-> ParseTime(revisions[i + windowSize - 1].Timestamp),
     Participants  |-> {revisions[j].User : j \in i..(i + windowSize - 1)},
     RevisionCount |-> windowSize]

\* The EditWarPeriod built for the window starting at i.  Participants is built
\* from the keys of a map, so it is a set here: its order in the Go slice is the
\* map's iteration order.
WindowPeriod(revisions, i) ==
    [StartTime     |-> ParseTime(revisions[i].Timestamp),
     EndTime       |-> ParseTime(revisions[i + windowSize - 1].Timestamp),
     Participants  |-> {revisions[j].User : j \in i..(i + windowSize - 1)},
     RevisionCount |-> windowSize]

detectEditWarPeriods(revisions) ==
    LET q == QualifyingWindows(revisions)
    IN  [k \in 1..Len(q) |-> WindowPeriod(revisions, q[k])]

-----------------------------------------------------------------------------
(* PageAnalyzer.detectRevert, the classification convertRevisions stores in *)
(* Revision.IsRevert and extractRevisions copies into EditEvent.IsRevert    *)

PageRevertKeywords ==
    << <<"r","e","v","e","r","t">>, <<"u","n","d","o">>, <<"u","n","d","i","d">>,
       <<"r","v">>, <<"r","e","v","e","r","t","e","d">>,
       <<"r","e","s","t","o","r","e">>, <<"r","e","s","t","o","r","e","d">>,
       <<"r","o","l","l","b","a","c","k">>,
       <<"r","o","l","l","e","d"," ","b","a","c","k">> >>

PageAnalyzer_detectRevert(comment) == ContainsAny(ToLower(comment), PageRevertKeywords)

-----------------------------------------------------------------------------
(* CrossPageAnalyzer: support events between two users *)

\* options.MaxReactionTime after NewCrossPageAnalyzer's default (minutes)
MaxReactionTime == 60

\* the lookahead of findSupportEvents: j < i+10
Lookahead == 10

Min(a, b) == IF a < b THEN a ELSE b

Max(a, b) == IF a > b THEN a ELSE b

\* A float64 that is the quotient of two small integers is kept as the pair
\* (num, den), den > 0; comparisons with the decimal thresholds of the code are
\* cross-multiplied.  For the counts that occur here (below 2^53, quotients that
\* differ from a threshold by far more than one ulp) this is the float comparison.
Ratio(n, d) == [num |-> n, den |-> d]

Zero == Ratio(0, 1)

\* r > k/10
RatioAbove(r, k) == 10 * r.num > k * r.den

\* sort.Slice(revisions, Timestamp.Before): for the at most 12 elements modelled
\* here Go's sort.Slice is an insertion sort, which keeps equal timestamps in
\* their input order
RECURSIVE InsertByTimestamp(_, _)
InsertByTimestamp(sorted, e) ==
    IF sorted = <<>> THEN <<e>>
    ELSE IF e.Timestamp < sorted[Len(sorted)].Timestamp
         THEN Append(InsertByTimestamp(SubSeq(sorted, 1, Len(sorted) - 1), e),
                     sorted[Len(sorted)])
         ELSE Append(sorted, e)

RECURSIVE SortByTimestamp(_)
SortByTimestamp(revisions) ==
    IF revisions = <<>> THEN <<>>
    ELSE InsertByTimestamp(SortByTimestamp(SubSeq(revisions, 1, Len(revisions) - 1)),
                           revisions[Len(revisions)])

isContentRestoration(edit1, edit2) == edit1.SizeDiff < -100 /\ edit2.SizeDiff > 50

DefensiveWords ==
    << <<"r","e","s","t","o","r","e">>, <<"f","i","x">>,
       <<"c","o","r","r","e","c","t">>, <<"u","n","d","o">>,
       <<"r","e","v","e","r","t"," ","v","a","n","d","a","l","i","s","m">>,
       <<"r","v">> >>

isDefensiveEdit(edit1, edit2) == ContainsAny(ToLower(edit2.Comment), DefensiveWords)

\* isSupportEvent without the test that the second editor is one of the pair
isSupportEventOfAnyEditor(edit1, edit2, userA, userB) ==
    /\ edit1.PageTitle = edit2.PageTitle
    /\ edit1.Username # edit2.Username
    /\ \/ edit1.IsRevert
       \/ edit2.IsRevert
       \/ isContentRestoration(edit1, edit2)
       \/ isDefensiveEdit(edit1, edit2)

isSupportEvent(edit1, edit2, userA, userB) ==
    /\ edit1.PageTitle = edit2.PageTitle
    /\ edit1.Username # edit2.Username
    /\ (edit2.Username = userA \/ edit2.Username = userB)
    /\ \/ edit1.IsRevert
       \/ edit2.IsRevert
       \/ isContentRestoration(edit1, edit2)
       \/ isDefensiveEdit(edit1, edit2)

determineSupportType(edit1, edit2) ==
    IF edit1.IsRevert /\ ~edit2.IsRevert THEN "revert_defense"
    ELSE IF edit2.IsRevert THEN "counter_revert"
    ELSE IF isContentRestoration(edit1, edit2) THEN "content_restoration"
    ELSE "defensive_edit"

\* determineSupportedUser answering userB whoever made the second edit.
determineSupportedUserAlwaysB(edit1, edit2, userA, userB) == userB

determineSupportedUser(edit1, edit2, userA, userB) ==
    IF edit2.Username = userA THEN userB
    ELSE IF edit2.Username = userB THEN userA
    ELSE ""

\* int(nextEdit.Timestamp.Sub(currentEdit.Timestamp).Minutes())
ReactionMinutes(edit1, edit2) ==
    TruncDiv(edit2.Timestamp - edit1.Timestamp, SecondsPerMinute)

\* The (i, j) the two loops of findSupportEvents visit, in visiting order
\* (1-based: i = 1..n-1, j = i+1 .. min(n, i+Lookahead-1)).
RECURSIVE CandidatePairsFrom(_, _)
CandidatePairsFrom(i, n) ==
    IF i > n - 1 THEN <<>>
    ELSE [k \in 1..(Min(n, i + Lookahead - 1) - i) |-> <<i, i + k>>]
            \o CandidatePairsFrom(i + 1, n)

SupportEventOf(currentEdit, nextEdit, userA, userB) ==
    [Timestamp     |-> nextEdit.Timestamp,
     PageTitle     |-> nextEdit.PageTitle,
     SupportType   |-> determineSupportType(currentEdit, nextEdit),
     ReactionTime  |-> ReactionMinutes(currentEdit, nextEdit),
     AttackerUser  |-> currentEdit.Username,
     DefenderUser  |-> nextEdit.Username,
     SupportedUser |-> determineSupportedUser(currentEdit, nextEdit, userA, userB),
     RevisionID    |-> nextEdit.RevisionID,
     Comment       |-> nextEdit.Comment]

findSupportEvents(userA, userB, revisions) ==
    LET kept == SelectSeq(CandidatePairsFrom(1, Len(revisions)),
                    LAMBDA p :
                        /\ isSupportEvent(revisions[p[1]], revisions[p[2]], userA, userB)
                        /\ ReactionMinutes(revisions[p[1]], revisions[p[2]])
                              <= MaxReactionTime)
    IN  [k \in 1..Len(kept) |->
            SupportEventOf(revisions[kept[k][1]], revisions[kept[k][2]], userA, userB)]

\* The counters left at zero
CountNoSupports(events, defender, supported) == 0

\* the two counters of calculateMutualSupportRatio and calculateReciprocityScore
CountSupports(events, defender, supported) ==
    Cardinality({k \in 1..Len(events) :
        events[k].DefenderUser = defender /\ events[k].SupportedUser = supported})

calculateMutualSupportRatio(events, userA, userB) ==
    IF Len(events) = 0 THEN Zero
    ELSE LET aSupportsB == CountSupports(events, userA, userB)
             \* the else-if branch counts an event only if the first test failed
             bSupportsA == Cardinality({k \in 1..Len(events) :
                              /\ ~(events[k].DefenderUser = userA
                                     /\ events[k].SupportedUser = userB)
                              /\ events[k].DefenderUser = userB
                              /\ events[k].SupportedUser = userA})
             totalSupport == aSupportsB + bSupportsA
         IN  IF totalSupport = 0 THEN Zero ELSE Ratio(totalSupport, Len(events))

RECURSIVE SumReactionTimes(_)
SumReactionTimes(events) ==
    IF events = <<>> THEN 0
    ELSE events[1].ReactionTime + SumReactionTimes(Tail(events))

calculateAverageReactionTime(events) ==
    IF Len(events) = 0 THEN 0
    ELSE TruncDiv(SumReactionTimes(events), Len(events))

calculateReciprocityScore(events, userA, userB) ==
    LET aSupportsB == CountSupports(events, userA, userB)
        bSupportsA == Cardinality({k \in 1..Len(events) :
                         /\ ~(events[k].DefenderUser = userA
                                /\ events[k].SupportedUser = userB)
                         /\ events[k].DefenderUser = userB
                         /\ events[k].SupportedUser = userA})
    IN  IF aSupportsB = 0 /\ bSupportsA = 0 THEN Zero
        ELSE IF Max(aSupportsB, bSupportsA) = 0 THEN Zero
        ELSE Ratio(Min(aSupportsB, bSupportsA), Max(aSupportsB, bSupportsA))

calculateExclusivityRatio(events, userA, userB) ==
    LET mutualEvents == Cardinality({k \in 1..Len(events) :
            \/ (events[k].DefenderUser = userA /\ events[k].SupportedUser = userB)
            \/ (events[k].DefenderUser = userB /\ events[k].SupportedUser = userA)})
    IN  IF Len(events) = 0 THEN Zero ELSE Ratio(mutualEvents, Len(events))

\* The point score without the band of the exclusivity
SupportPointsWithoutExclusivity(mutualRatio, avgReactionTime, reciprocity, exclusivity) ==
      (IF RatioAbove(mutualRatio, 7) THEN 3
       ELSE IF RatioAbove(mutualRatio, 5) THEN 2
       ELSE IF RatioAbove(mutualRatio, 3) THEN 1 ELSE 0)
    + (IF avgReactionTime < 10 THEN 3
       ELSE IF avgReactionTime < 30 THEN 2
       ELSE IF avgReactionTime < 60 THEN 1 ELSE 0)
    + (IF RatioAbove(reciprocity, 8) THEN 2
       ELSE IF RatioAbove(reciprocity, 6) THEN 1 ELSE 0)

\* the point score of determineSupportSuspicionLevel; avgReactionTime is the
\* float64 of an int
SupportPoints(mutualRatio, avgReactionTime, reciprocity, exclusivity) ==
      (IF RatioAbove(mutualRatio, 7) THEN 3
       ELSE IF RatioAbove(mutualRatio, 5) THEN 2
       ELSE IF RatioAbove(mutualRatio, 3) THEN 1 ELSE 0)
    + (IF avgReactionTime < 10 THEN 3
       ELSE IF avgReactionTime < 30 THEN 2
       ELSE IF avgReactionTime < 60 THEN 1 ELSE 0)
    + (IF RatioAbove(reciprocity, 8) THEN 2
       ELSE IF RatioAbove(reciprocity, 6) THEN 1 ELSE 0)
    + (IF RatioAbove(exclusivity, 9) THEN 2
       ELSE IF RatioAbove(exclusivity, 7) THEN 1 ELSE 0)

determineSupportSuspicionLevel(mutualRatio, avgReactionTime, reciprocity, exclusivity) ==
    LET score == SupportPoints(mutualRatio, avgReactionTime, reciprocity, exclusivity)
    IN  IF score >= 8 THEN "VERY_HIGH"
        ELSE IF score >= 6 THEN "HIGH"
        ELSE IF score >= 4 THEN "MODERATE"
        ELSE IF score >= 2 THEN "LOW"
        ELSE "NONE"

getSuspicionLevelScore(level) ==
    CASE level = "VERY_HIGH" -> 5
      [] level = "HIGH" -> 4
      [] level = "MODERATE" -> 3
      [] level = "LOW" -> 2
      [] level = "NONE" -> 1
      [] OTHER -> 0

\* The body of detectMutualSupport's loop for one pair, on the sorted events: the
\* support events, the four metrics and the level.
EvaluatePair(userA, userB, revisions) ==
    LET supportEvents == findSupportEvents(userA, userB, revisions)
        mutualSupportRatio == calculateMutualSupportRatio(supportEvents, userA, userB)
        averageReactionTime == calculateAverageReactionTime(supportEvents)
        reciprocityScore == calculateReciprocityScore(supportEvents, userA, userB)
        exclusivityRatio == calculateExclusivityRatio(supportEvents, userA, userB)
    IN  [UserA               |-> userA,
         UserB               |-> userB,
         SupportEvents       |-> supportEvents,
         MutualSupportRatio  |-> mutualSupportRatio,
         AverageReactionTime |-> averageReactionTime,
         ReciprocityScore    |-> reciprocityScore,
         ExclusivityRatio    |-> exclusivityRatio,
         SuspicionLevel      |-> determineSupportSuspicionLevel(mutualSupportRatio,
                                     averageReactionTime, reciprocityScore,
                                     exclusivityRatio)]

-----------------------------------------------------------------------------
(* The edit-war specification: a page history arrives oldest first           *)
(* (GetPageHistory asks rvdir=newer) and analyzeConflicts runs the detector. *)

Users == {"A", "B", "C"}

MaxRevisions == 6

MaxLongRevisions == 10

\* Gaps between consecutive revisions: 15 minutes and 11 h 45 min, so that a
\* window spans exactly 1 hour, exactly 24 hours, or more than 24 hours.
Gaps == {900, 42300}

\* The same with revisions saved in the same second.
LongGaps == {0, 900, 42300}

SupportIdle == allRevisions = <<>> /\ pairAB = <<>> /\ pairBA = <<>>

EditWarIdle ==
    /\ detailedHistory = <<>> /\ editWarPeriods = <<>>
    /\ pageRevisions = <<>> /\ recentRevisions = <<>>

ScoreIdle == scored = <<>>

RevokedIdle ==
    language = "en" /\ contributions = <<>> /\ revocations = <<>> /\ recentContribs = <<>>

\* AnalyzePages before its first step: no analyzer made, empty accumulators
NotStarted ==
    [phase              |-> "new",
     options            |-> [MinCommonEdits |-> 0, MaxReactionTime |-> 0, MinMutualSupportRatio |-> 0],
     outcomes           |-> <<>>,
     pageProfiles       |-> {},
     allContributors    |-> {},
     allRevisions       |-> <<>>,
     commonContributors |-> <<>>,
     report             |-> <<>>]

RunsIdle == pageProfiles = <<>> /\ runs = <<>> /\ analysis = NotStarted

\* Nothing fetched and nothing analysed yet.
Idle == EditWarIdle /\ SupportIdle /\ ScoreIdle /\ RevokedIdle /\ RunsIdle

FetchHistoryRevision(actors, gaps, max) ==
    /\ pc = "input"
    /\ Len(detailedHistory) < max
    /\ \E u \in actors :
         \E t \in (IF detailedHistory = <<>> THEN {0}
                   ELSE {detailedHistory[Len(detailedHistory)].Timestamp + g : g \in gaps}) :
            detailedHistory' = Append(detailedHistory, [User |-> u, Timestamp |-> t])
    /\ UNCHANGED <<pc, editWarPeriods, pageRevisions, recentRevisions, supportVars, scoreVars,
                   revokedVars, runVars>>

\* analyzeConflicts: stats.EditWarPeriods = pa.detectEditWarPeriods(revisions)
AnalyzeConflicts ==
    /\ pc = "input"
    /\ pc' = "done"
    /\ editWarPeriods' = detectEditWarPeriods(detailedHistory)
    /\ UNCHANGED <<detailedHistory, pageRevisions, recentRevisions, supportVars, scoreVars,
                   revokedVars, runVars>>

InitEditWar == pc = "input" /\ Idle

NextEditWar == FetchHistoryRevision(Users, Gaps, MaxRevisions) \/ AnalyzeConflicts

SpecEditWar == InitEditWar /\ [][NextEditWar]_vars

NextEditWarLong == FetchHistoryRevision({"A"}, LongGaps, MaxLongRevisions) \/ AnalyzeConflicts

SpecEditWarLong == InitEditWar /\ [][NextEditWarLong]_vars

-----------------------------------------------------------------------------
(* The raw-history specification: the revisions handed to analyzeConflicts   *)
(* carry any timestamps, in any order, some of them malformed.               *)

MaxRawRevisions == 6

\* Timestamps half a day apart, and a string that is no timestamp
RawTimestamps == {MalformedTimestamp, 0, 12 * SecondsPerHour, Day, 36 * SecondsPerHour}

FetchRawRevision ==
    /\ pc = "input"
    /\ Len(detailedHistory) < MaxRawRevisions
    /\ \E t \in RawTimestamps :
          detailedHistory' = Append(detailedHistory, [User |-> "A", Timestamp |-> t])
    /\ UNCHANGED <<pc, editWarPeriods, pageRevisions, recentRevisions, supportVars, scoreVars,
                   revokedVars, runVars>>

NextEditWarRaw == FetchRawRevision \/ AnalyzeConflicts

SpecEditWarRaw == InitEditWar /\ [][NextEditWarRaw]_vars

-----------------------------------------------------------------------------
(* The support-event specification: edit events of the analysed pages        *)
(* accumulate newest first (the order GetPageRevisions returns them in),     *)
(* detectMutualSupport sorts them in place and evaluates the pair.           *)

Pages == {"P1", "P2"}

MaxEvents == 3

\* "POV edit", "rv vandalism" and "Fix typo"
CommentPOV == <<"P","O","V"," ","e","d","i","t">>

CommentRv == <<"r","v"," ","v","a","n","d","a","l","i","s","m">>

CommentFix == <<"F","i","x"," ","t","y","p","o">>

\* What an edit does, its comment and its size delta: an addition that is no
\* revert, a revert, and a removal whose comment is defensive but no revert.
EditKinds ==
    { [Comment |-> CommentPOV, SizeDiff |-> 60],
      [Comment |-> CommentRv,  SizeDiff |-> -150],
      [Comment |-> CommentFix, SizeDiff |-> -150] }

\* Seconds between consecutive events: 30 s and 60 min 30 s (two of them span
\* 1 min, 61 min or 121 min).
EventGaps == {30, 3630}

\* extractRevisions: the EditEvent of one revision; IsRevert is the flag
\* convertRevisions computed with PageAnalyzer.detectRevert.
EditEventOf(ts, user, page, revID, kind) ==
    [Timestamp  |-> ts,
     Username   |-> user,
     PageTitle  |-> page,
     RevisionID |-> revID,
     SizeDiff   |-> kind.SizeDiff,
     Comment    |-> kind.Comment,
     IsRevert   |-> PageAnalyzer_detectRevert(kind.Comment)]

\* The time of the next event: the newest so far plus a gap.
NextTimes(gaps) ==
    IF allRevisions = <<>> THEN {0}
    ELSE {allRevisions[1].Timestamp + g : g \in gaps}

ExtractRevision ==
    /\ pc = "input"
    /\ Len(allRevisions) < MaxEvents
    /\ \E u \in Users, p \in Pages, k \in EditKinds, t \in NextTimes(EventGaps) :
          allRevisions' =
              <<EditEventOf(t, u, p, Len(allRevisions) + 1, k)>> \o allRevisions
    /\ UNCHANGED <<pc, editWarVars, pairAB, pairBA, scoreVars, revokedVars, runVars>>

\* detectMutualSupport on the pair of A and B: the sort of the shared slice, then
\* the evaluation of the pair in both orders createUserPairs can present it in.
DetectMutualSupport ==
    /\ pc = "input"
    /\ pc' = "done"
    /\ allRevisions' = SortByTimestamp(allRevisions)
    /\ pairAB' = EvaluatePair("A", "B", allRevisions')
    /\ pairBA' = EvaluatePair("B", "A", allRevisions')
    /\ UNCHANGED <<editWarVars, scoreVars, revokedVars, runVars>>

InitSupport == pc = "input" /\ Idle

NextSupport == ExtractRevision \/ DetectMutualSupport

SpecSupport == InitSupport /\ [][NextSupport]_vars

-----------------------------------------------------------------------------
(* The scenario of one page on which A edits and B reverts, five times over. *)

ScenarioRounds == 5

\* Seconds from B's revert to A's next edit, and from A's edit to B's revert.
RoundGaps == {600, 900}

ReactionGaps == {300, 540, 600}

ScenarioEdit ==
    /\ pc = "input"
    /\ Len(allRevisions) < 2 * ScenarioRounds
    /\ Len(allRevisions) % 2 = 0
    /\ \E t \in NextTimes(RoundGaps) :
          allRevisions' =
              <<EditEventOf(t, "A", "P1", Len(allRevisions) + 1,
                            [Comment |-> CommentPOV, SizeDiff |-> 60])>>
                 \o allRevisions
    /\ UNCHANGED <<pc, editWarVars, pairAB, pairBA, scoreVars, revokedVars, runVars>>

ScenarioRevert ==
    /\ pc = "input"
    /\ Len(allRevisions) % 2 = 1
    /\ \E t \in NextTimes(ReactionGaps) :
          allRevisions' =
              <<EditEventOf(t, "B", "P1", Len(allRevisions) + 1,
                            [Comment |-> CommentRv, SizeDiff |-> -60])>>
                 \o allRevisions
    /\ UNCHANGED <<pc, editWarVars, pairAB, pairBA, scoreVars, revokedVars, runVars>>

ScenarioDetect ==
    /\ Len(allRevisions) = 2 * ScenarioRounds
    /\ DetectMutualSupport

NextScenario == ScenarioEdit \/ ScenarioRevert \/ ScenarioDetect

SpecScenario == InitSupport /\ [][NextScenario]_vars

-----------------------------------------------------------------------------
(* The burst specification: edits follow each other on one page a minute     *)
(* apart, each a removal by C or an addition by A, and detectMutualSupport   *)
(* evaluates the pair of A and B on them; or findSupportEvents is applied to *)
(* two edits whose sizes lie around the limits of isContentRestoration.      *)

MaxBurst == 11

\* A removal of 150 characters by C and an addition of 60 by A, neither a
\* revert nor defensive by its comment ("POV edit").
BurstEdits ==
    { [Username |-> "C", Comment |-> CommentPOV, SizeDiff |-> -150],
      [Username |-> "A", Comment |-> CommentPOV, SizeDiff |-> 60] }

ExtractBurstRevision ==
    /\ pc = "input"
    /\ Len(allRevisions) < MaxBurst
    /\ \E e \in BurstEdits, t \in NextTimes({SecondsPerMinute}) :
          allRevisions' =
              <<EditEventOf(t, e.Username, "P1", Len(allRevisions) + 1, e)>>
                 \o allRevisions
    /\ UNCHANGED <<pc, editWarVars, pairAB, pairBA, scoreVars, revokedVars, runVars>>

\* Size deltas around the two limits of isContentRestoration
RemovedSizes == {-101, -100, -99, 0}

AddedSizes == {49, 50, 51}

\* findSupportEvents for the pair of A and B on an edit of C followed half a
\* minute later by an edit of A on the same page.
ExamineEditPair ==
    /\ pc = "input"
    /\ allRevisions = <<>>
    /\ pc' = "done"
    /\ \E s1 \in RemovedSizes, s2 \in AddedSizes,
          c1 \in {CommentPOV, CommentRv}, c2 \in {CommentPOV, CommentFix} :
          LET edit1 == EditEventOf(0, "C", "P1", 1, [Comment |-> c1, SizeDiff |-> s1])
              edit2 == EditEventOf(30, "A", "P1", 2, [Comment |-> c2, SizeDiff |-> s2])
          IN  scored' = <<[kind   |-> "edit pair",
                           edit1  |-> edit1,
                           edit2  |-> edit2,
                           events |-> findSupportEvents("A", "B", <<edit1, edit2>>)]>>
    /\ UNCHANGED <<editWarVars, supportVars, revokedVars, runVars>>

NextBurst == ExtractBurstRevision \/ DetectMutualSupport \/ ExamineEditPair

SpecBurst == InitSupport /\ [][NextBurst]_vars

-----------------------------------------------------------------------------
(* UserAnalyzer (user.go): the profile GetUserProfile assembles from the     *)
(* account record, the contributions and the revoked contributions, and the  *)
(* score calculateSuspicionScore derives from it.                            *)

\* A nil *time.Time
NoDate == -1

\* int(time.Since(t).Hours() / 24)
DaysSince(now, t) == TruncDiv(now - t, Day)

Range(s) == {s[i] : i \in DOMAIN s}

NoScore == [score |-> 0, flags |-> <<>>]

\* A rule that adds its weight and no flag
AddRuleUnflagged(s, weight, flag) == [score |-> s.score + weight, flags |-> s.flags]

\* score += weight; flags = append(flags, flag)
AddRule(s, weight, flag) == [score |-> s.score + weight, flags |-> Append(s.flags, flag)]

\* if cond { score += weight; flags = append(flags, flag) }
AddRuleIf(s, cond, weight, flag) == IF cond THEN AddRule(s, weight, flag) ELSE s

\* No rule of an if / else-if chain applies
NoRule == <<>>

\* The rule an if / else-if chain selected, if any, is applied
AddSelected(s, rule) == IF rule = NoRule THEN s ELSE AddRule(s, rule[1], rule[2])

\* A score that is not limited
LimitNone(s) == s

\* if score > 100 { score = 100 }
Limit(s) == IF s.score > 100 THEN [s EXCEPT !.score = 100] ELSE s

Whitespace == {" ", "\t", "\n", "\r"}

RECURSIVE TrimLeft(_)
TrimLeft(s) == IF s # <<>> /\ Head(s) \in Whitespace THEN TrimLeft(Tail(s)) ELSE s

RECURSIVE TrimRight(_)
TrimRight(s) ==
    IF s # <<>> /\ s[Len(s)] \in Whitespace
    THEN TrimRight(SubSeq(s, 1, Len(s) - 1))
    ELSE s

\* strings.TrimSpace
TrimSpace(s) == TrimRight(TrimLeft(s))

analyzeBlockInfo(userInfo) ==
    [Blocked |-> userInfo.BlockExpiry # "" /\ userInfo.BlockExpiry # "infinity"]

convertContributions(wikiContribs) ==
    [i \in DOMAIN wikiContribs |->
        [RevID     |-> wikiContribs[i].RevID,
         PageTitle |-> wikiContribs[i].Title,
         Namespace |-> wikiContribs[i].NS,
         Timestamp |-> wikiContribs[i].Timestamp,
         Comment   |-> wikiContribs[i].Comment,
         SizeDiff  |-> wikiContribs[i].SizeDiff]]

\* key := fmt.Sprintf("%d:%s", contrib.PageID, contrib.Title)
PageKey(contrib) == <<contrib.PageID, contrib.Title>>

PageEdits(wikiContribs, key) ==
    Cardinality({i \in DOMAIN wikiContribs : PageKey(wikiContribs[i]) = key})

\* sort.Slice(topPages, EditCount descending).  Pages with equal counts come
\* out in an order the program does not fix; the scoring reads only
\* TopPages[0].EditCount, which is the same for every such order.
RECURSIVE SortPagesByEditCount(_, _)
SortPagesByEditCount(wikiContribs, keys) ==
    IF keys = {} THEN <<>>
    ELSE LET top == CHOOSE k \in keys :
                       \A o \in keys : PageEdits(wikiContribs, k) >= PageEdits(wikiContribs, o)
         IN  <<[PageID    |-> top[1],
                PageTitle |-> top[2],
                EditCount |-> PageEdits(wikiContribs, top)]>>
                \o SortPagesByEditCount(wikiContribs, keys \ {top})

analyzeTopPages(wikiContribs) ==
    LET topPages == SortPagesByEditCount(wikiContribs,
                        {PageKey(wikiContribs[i]) : i \in DOMAIN wikiContribs})
    IN  SubSeq(topPages, 1, Min(Len(topPages), 15))

\* namespaceNames[contrib.NS], or NS_<n> for a namespace the table lacks
NamespaceName(ns) ==
    CASE ns = 0   -> "Main"
      [] ns = 1   -> "Talk"
      [] ns = 2   -> "User"
      [] ns = 3   -> "User talk"
      [] ns = 4   -> "Wikipedia"
      [] ns = 6   -> "File"
      [] ns = 10  -> "Template"
      [] ns = 14  -> "Category"
      [] ns = 100 -> "Portal"
      [] OTHER    -> "NS_" \o ToString(ns)

\* analyzeActivity: stats.NamespaceDistrib[nsName]++
analyzeActivity(wikiContribs) ==
    [NamespaceDistrib |->
        [name \in {NamespaceName(wikiContribs[i].NS) : i \in DOMAIN wikiContribs} |->
            Cardinality({i \in DOMAIN wikiContribs :
                            NamespaceName(wikiContribs[i].NS) = name})]]

\* for _, revoked := range revokedContribs { revertedByUsers[revoked.RevokedBy]++ }
RevertedByUsersOf(revokedContribs) ==
    [u \in {revokedContribs[i].RevokedBy : i \in DOMAIN revokedContribs} |->
        Cardinality({i \in DOMAIN revokedContribs : revokedContribs[i].RevokedBy = u})]

RECURSIVE SumCounts(_, _)
SumCounts(counts, keys) ==
    IF keys = {} THEN 0
    ELSE LET k == CHOOSE x \in keys : TRUE
         IN  counts[k] + SumCounts(counts, keys \ {k})

SensitiveNamespaces == {"Main", "Wikipedia", "Portal"}

\* r >= k/10
RatioAtLeast(r, k) == 10 * r.num >= k * r.den

\* The chain with thresholds that are included in their band
RevokedRatioRuleInclusive(ratio) ==
    IF RatioAtLeast(ratio, 5) THEN <<30, "VERY_HIGH_REVOKED_RATIO">>
    ELSE IF RatioAtLeast(ratio, 3) THEN <<20, "HIGH_REVOKED_RATIO">>
    ELSE IF RatioAtLeast(ratio, 2) THEN <<10, "MODERATE_REVOKED_RATIO">>
    ELSE NoRule

\* The rule the if / else-if chain on the revoked ratio selects
RevokedRatioRule(ratio) ==
    IF RatioAbove(ratio, 5) THEN <<30, "VERY_HIGH_REVOKED_RATIO">>
    ELSE IF RatioAbove(ratio, 3) THEN <<20, "HIGH_REVOKED_RATIO">>
    ELSE IF RatioAbove(ratio, 2) THEN <<10, "MODERATE_REVOKED_RATIO">>
    ELSE NoRule

UserAnalyzer_calculateSuspicionScore(profile, now) ==
    LET isRecent == /\ profile.RegistrationDate # NoDate
                    /\ DaysSince(now, profile.RegistrationDate) < 30
        \* 1. Recent account with high activity
        s1 == AddRuleIf(NoScore, isRecent /\ profile.EditCount > 100,
                        20, "RECENT_ACCOUNT_HIGH_ACTIVITY")
        \* 2. Blocked user
        s2 == AddRuleIf(s1, profile.BlockInfo.Blocked, 30, "USER_BLOCKED")
        \* 3. Focus on small number of pages
        s3 == AddRuleIf(s2, /\ Len(profile.TopPages) > 0
                            /\ profile.TopPages[1].EditCount > profile.EditCount \div 2,
                        15, "SINGLE_PAGE_FOCUS")
        \* 4. No special groups
        hasSpecialGroups ==
            \E i \in DOMAIN profile.Groups : profile.Groups[i] \notin {"*", "user"}
        s4 == AddRuleIf(s3, ~hasSpecialGroups /\ profile.EditCount > 50,
                        10, "NO_SPECIAL_GROUPS")
        \* 5. Activity only in sensitive namespaces
        distrib == profile.ActivityStats.NamespaceDistrib
        totalEdits == SumCounts(distrib, DOMAIN distrib)
        totalSensitive == SumCounts(distrib, DOMAIN distrib \cap SensitiveNamespaces)
        s5 == AddRuleIf(s4, /\ totalEdits > 0
                            /\ RatioAbove(Ratio(totalSensitive, totalEdits), 9),
                        15, "SENSITIVE_NAMESPACE_FOCUS")
        \* 6. Empty edit comments
        emptyComments ==
            Cardinality({i \in DOMAIN profile.RecentContribs :
                            TrimSpace(profile.RecentContribs[i].Comment) = <<>>})
        s6 == AddRuleIf(s5, /\ Len(profile.RecentContribs) > 0
                            /\ RatioAbove(Ratio(emptyComments,
                                                Len(profile.RecentContribs)), 7),
                        10, "FREQUENT_EMPTY_COMMENTS")
        \* 7. High ratio of revoked contributions
        s7 == AddSelected(s6, RevokedRatioRule(profile.RevokedRatio))
        \* 8. Many revoked contributions in absolute value
        s8 == AddSelected(s7,
                 IF profile.RevokedCount > 50
                 THEN <<15, "MANY_REVOKED_CONTRIBUTIONS">>
                 ELSE IF profile.RevokedCount > 20
                 THEN <<10, "SOME_REVOKED_CONTRIBUTIONS">>
                 ELSE NoRule)
        \* 9. Revoked mainly for vandalism
        vandalismReverts ==
            Cardinality({i \in DOMAIN profile.RevokedContribs :
                            profile.RevokedContribs[i].RevertType = "vandalism_revert"})
        s9 == AddSelected(s8,
                 IF vandalismReverts > 10
                 THEN <<25, "VANDALISM_PATTERN">>
                 ELSE IF vandalismReverts > 5
                 THEN <<15, "SOME_VANDALISM_REVERTS">>
                 ELSE NoRule)
        \* The loop over RevertedByUsers stops at the first user who made more
        \* than half of the reverts; there is at most one, so the order in
        \* which the map is walked does not matter.
        conflicting ==
            {u \in DOMAIN profile.RevertedByUsers :
                /\ u \notin {"system_detected", "detected"}
                /\ profile.RevertedByUsers[u] > 5
                /\ profile.RevokedCount > 0
                /\ RatioAbove(Ratio(profile.RevertedByUsers[u],
                                    profile.RevokedCount), 5)}
        s10 == AddSelected(s9,
                 IF conflicting # {}
                 THEN <<15, "CONFLICT_WITH_SPECIFIC_USER_"
                                \o (CHOOSE u \in conflicting : TRUE)>>
                 ELSE NoRule)
        \* 11. Recently created with many revocations
        s11 == AddRuleIf(s10, isRecent /\ profile.RevokedCount > 10,
                         20, "NEW_ACCOUNT_MANY_REVERTS")
    IN  Limit(s11)

\* GetUserProfile from step 3 on, given what the API calls and the revoked
\* analysis returned.
GetUserProfile(userInfo, wikiContribs, revokedContribs, now) ==
    LET profile ==
            [Username         |-> userInfo.Name,
             EditCount        |-> userInfo.EditCount,
             Groups           |-> userInfo.Groups,
             RegistrationDate |-> userInfo.Registration,
             BlockInfo        |-> analyzeBlockInfo(userInfo),
             RecentContribs   |-> convertContributions(wikiContribs),
             TopPages         |-> analyzeTopPages(wikiContribs),
             ActivityStats    |-> analyzeActivity(wikiContribs),
             RevokedContribs  |-> revokedContribs,
             RevokedCount     |-> Len(revokedContribs),
             RevokedRatio     |-> IF Len(wikiContribs) > 0
                                  THEN Ratio(Len(revokedContribs), Len(wikiContribs))
                                  ELSE Zero,
             RevertedByUsers  |-> RevertedByUsersOf(revokedContribs)]
        result == UserAnalyzer_calculateSuspicionScore(profile, now)
    IN  profile @@ [SuspicionScore |-> result.score,
                    SuspicionFlags |-> result.flags]

-----------------------------------------------------------------------------
(* ContributionAnalyzer (contribution.go): the score of one edit *)

ContributionRevertKeywords ==
    << <<"r","e","v","e","r","t">>, <<"u","n","d","o">>, <<"u","n","d","i","d">>, <<"r","v">>, <<"r","e","v","e","r","t","e","d">>,
       <<"r","e","s","t","o","r","e">>, <<"r","e","s","t","o","r","e","d">>, <<"r","o","l","l","b","a","c","k">>, <<"r","o","l","l","e","d"," ","b","a","c","k">> >>

ContributionAnalyzer_detectRevert(comment) ==
    ContainsAny(ToLower(comment), ContributionRevertKeywords)

\* analyzeAuthor: an anonymous author is not analysed further; for the others
\* the account record and the score of their user profile are copied.
analyzeAuthor(revision, userInfo, editsLast24h, userProfile) ==
    IF revision.Anon = "true"
    THEN [IsAnonymous      |-> TRUE,
          RegistrationDate |-> NoDate,
          IsBlocked        |-> FALSE,
          RecentActivity   |-> [EditsLast24h |-> 0],
          SuspicionScore   |-> 0]
    ELSE [IsAnonymous      |-> FALSE,
          RegistrationDate |-> userInfo.Registration,
          IsBlocked        |-> userInfo.BlockedBy # "",
          RecentActivity   |-> [EditsLast24h |-> editsLast24h],
          SuspicionScore   |-> userProfile.SuspicionScore]

\* analyzeContentFromRevision: the characters added and removed against the
\* parent revision, and the bias score len(POVWords) / 10.0
analyzeContentFromRevision(revision, parentSize, povWords) ==
    [TextChanges      |-> [CharsAdded   |-> Max(0, revision.Size - parentSize),
                           CharsRemoved |-> Max(0, parentSize - revision.Size)],
     LanguageAnalysis |-> [BiasScore |-> Ratio(povWords, 10)]]

ContributionAnalyzer_calculateSuspicionScore(profile, now) ==
    LET \* Check author suspicion: no flag goes with this addition
        s0 == [score |-> IF profile.Author.SuspicionScore > 0
                         THEN profile.Author.SuspicionScore \div 2
                         ELSE 0,
               flags |-> <<>>]
        s1 == AddRuleIf(s0, profile.IsRevert, 15, "REVERT_EDIT")
        s2 == AddRuleIf(s1, profile.Author.RecentActivity.EditsLast24h > 50,
                        20, "RAPID_EDITING")
        s3 == AddRuleIf(s2, profile.Author.IsAnonymous, 5, "ANONYMOUS_EDIT")
        s4 == AddRuleIf(s3, /\ profile.Author.RegistrationDate # NoDate
                            /\ DaysSince(now, profile.Author.RegistrationDate) < 7,
                        15, "NEW_ACCOUNT")
        s5 == AddRuleIf(s4, RatioAbove(profile.ContentAnalysis.LanguageAnalysis.BiasScore, 3),
                        10, "POTENTIAL_BIAS")
        s6 == AddRuleIf(s5, profile.ContentAnalysis.TextChanges.CharsAdded > 5000,
                        10, "LARGE_ADDITION")
        s7 == AddRuleIf(s6, profile.ContentAnalysis.TextChanges.CharsRemoved > 2000,
                        15, "LARGE_REMOVAL")
        s8 == AddRuleIf(s7, profile.Author.IsBlocked, 25, "BLOCKED_USER")
    IN  Limit(s8)

\* GetContributionProfile from step 3 on, at the analysis depth "standard"
GetContributionProfile(revision, parentSize, povWords, userInfo, editsLast24h, userProfile, now) ==
    LET profile ==
            [RevisionID      |-> revision.RevID,
             Comment         |-> revision.Comment,
             IsRevert        |-> ContributionAnalyzer_detectRevert(revision.Comment),
             Author          |-> analyzeAuthor(revision, userInfo, editsLast24h, userProfile),
             ContentAnalysis |-> analyzeContentFromRevision(revision, parentSize, povWords)]
        result == ContributionAnalyzer_calculateSuspicionScore(profile, now)
    IN  profile @@ [SuspicionScore |-> result.score,
                    SuspicionFlags |-> result.flags]

-----------------------------------------------------------------------------
(* PageAnalyzer (page.go): the scores of a page's contributors and of the page *)

\* if cond { flags = append(flags, flag) }
AppendIf(flags, cond, flag) == IF cond THEN Append(flags, flag) ELSE flags

analyzeContributorPageBehavior(contributor, now) ==
    LET f1 == AppendIf(<<>>, contributor.EditCount > 50, "HIGH_PAGE_ACTIVITY")
        f2 == AppendIf(f1, /\ DaysSince(now, contributor.FirstEdit) < 7
                           /\ contributor.EditCount > 10,
                       "NEW_ACCOUNT_HIGH_PAGE_ACTIVITY")
        f3 == AppendIf(f2, DaysSince(now, contributor.LastEdit) < 1, "VERY_RECENT_ACTIVITY")
        f4 == AppendIf(f3, \/ contributor.TotalSizeDiff > 10000
                           \/ contributor.TotalSizeDiff < -5000,
                       "LARGE_CONTENT_CHANGES")
    IN  f4

\* if cond { score += weight }
AddIf(score, cond, weight) == IF cond THEN score + weight ELSE score

calculateBasicContributorSuspicion(contributor, now) ==
    LET daysSinceFirstEdit == DaysSince(now, contributor.FirstEdit)
        s1 == AddIf(0, daysSinceFirstEdit < 30 /\ contributor.EditCount > 20, 15)
        s2 == AddIf(s1, contributor.EditCount > 100, 10)
        s3 == AddIf(s2, \/ contributor.TotalSizeDiff > 15000
                        \/ contributor.TotalSizeDiff < -10000, 10)
        s4 == AddIf(s3, daysSinceFirstEdit < 7 /\ contributor.EditCount > 5, 20)
    IN  s4

\* the limit of the detailed analysis: the first 10 contributors
DetailedLimit == 10

\* The outcome of userAnalyzer.GetUserProfile for a contributor: an error, or
\* the user's profile.
Failed == [err |-> TRUE]

Analysed(userProfile) == [err |-> FALSE, profile |-> userProfile]

\* The contributor left as it was
FailedContributorUnmarked(contributor) == contributor

\* The contributor whose GetUserProfile returned an error
FailedContributor(contributor) ==
    [contributor EXCEPT !.SuspicionScore = -1, !.AnalysisError = "Analysis failed"]

analyzeContributorSuspicion(contributors, outcome, now) ==
    LET limit == Min(Len(contributors), DetailedLimit)
    IN  [i \in DOMAIN contributors |->
            LET contributor == contributors[i] IN
            IF i <= limit
            THEN IF contributor.IsAnonymous
                 THEN [contributor EXCEPT !.SuspicionScore = 0,
                                          !.SuspicionFlags = <<"ANONYMOUS_USER">>]
                 ELSE IF outcome[contributor.Username].err
                 THEN FailedContributor(contributor)
                 ELSE [contributor EXCEPT
                         !.SuspicionScore = outcome[contributor.Username].profile.SuspicionScore,
                         !.SuspicionFlags =
                             outcome[contributor.Username].profile.SuspicionFlags
                                \o analyzeContributorPageBehavior(contributor, now)]
            ELSE IF contributor.IsAnonymous
                 THEN [contributor EXCEPT !.SuspicionScore = 5,
                                          !.SuspicionFlags = <<"ANONYMOUS_USER">>]
                 ELSE [contributor EXCEPT
                         !.SuspicionScore = calculateBasicContributorSuspicion(contributor, now),
                         !.SuspicionFlags = analyzeContributorPageBehavior(contributor, now)]]

RECURSIVE SumAbsDiff(_, _)
SumAbsDiff(contributors, pairs) ==
    IF pairs = {} THEN 0
    ELSE LET p == CHOOSE x \in pairs : TRUE
             diff == contributors[p[1]].EditCount - contributors[p[2]].EditCount
         IN  (IF diff < 0 THEN -diff ELSE diff) + SumAbsDiff(contributors, pairs \ {p})

RECURSIVE SumEditCounts(_, _)
SumEditCounts(contributors, n) ==
    IF n = 0 THEN 0 ELSE contributors[n].EditCount + SumEditCounts(contributors, n - 1)

\* 1 - gini, gini = sumDiff / (2 * n * n * meanEdits) and meanEdits = totalEdits / n,
\* so that gini = sumDiff / (2 * n * totalEdits)
calculateContributorDiversity(contributors) ==
    LET n == Len(contributors)
        totalEdits == SumEditCounts(contributors, n)
        sumDiff == SumAbsDiff(contributors,
                              {p \in (1..n) \X (1..n) : p[1] # p[2]})
    IN  IF n <= 1 \/ totalEdits = 0 THEN Zero
        ELSE Ratio(2 * n * totalEdits - sumDiff, 2 * n * totalEdits)

\* r < k/10
RatioBelow(r, k) == 10 * r.num < k * r.den

PageAnalyzer_calculateSuspicionScore(profile, now) ==
    LET s1 == AddRuleIf(NoScore, RatioAbove(profile.ConflictStats.ControversyScore, 3),
                        25, "PAGE_HIGH_CONFLICT")
        s2 == AddRuleIf(s1, Len(profile.Contributors) < 5 /\ profile.TotalRevisions > 100,
                        20, "PAGE_FEW_CONTRIBUTORS")
        s3 == AddRuleIf(s2, profile.QualityMetrics.RecentActivityBurst,
                        15, "PAGE_RECENT_INTENSIVE_ACTIVITY")
        s4 == AddRuleIf(s3, RatioAbove(profile.QualityMetrics.AnonymousEditRatio, 5),
                        15, "PAGE_ANONYMOUS_HEAVY_EDITING")
        \* a division by TotalRevisions = 0 gives +Inf, which is above 0.5, and
        \* so does the cross-multiplied comparison (EditCount is at least 1)
        s5 == AddRuleIf(s4, /\ Len(profile.Contributors) > 0
                            /\ DaysSince(now, profile.Contributors[1].FirstEdit) < 30
                            /\ RatioAbove(Ratio(profile.Contributors[1].EditCount,
                                                profile.TotalRevisions), 5),
                        20, "PAGE_NEW_EDITOR_DOMINANCE")
        s6 == AddRuleIf(s5, RatioBelow(profile.QualityMetrics.ContributorDiversity, 3),
                        10, "PAGE_LOW_DIVERSITY")
        s7 == AddRuleIf(s6, profile.ConflictStats.RecentConflicts > 5,
                        15, "PAGE_RECENT_CONFLICTS")
    IN  Limit(s7)

\* sort.Slice(s, func(i, j) bool { return key(s[i]) > key(s[j]) }) on at most 12
\* elements, an insertion sort: elements with equal keys keep their input order.
\* keys[i] is the key of s[i]; the result lists the indices of s in sorted order.
RECURSIVE InsertDesc(_, _, _)
InsertDesc(sorted, i, keys) ==
    IF sorted = <<>> THEN <<i>>
    ELSE IF keys[i] > keys[sorted[Len(sorted)]]
         THEN Append(InsertDesc(SubSeq(sorted, 1, Len(sorted) - 1), i, keys),
                     sorted[Len(sorted)])
         ELSE Append(sorted, i)

RECURSIVE SortIndicesDesc(_, _)
SortIndicesDesc(keys, n) ==
    IF n = 0 THEN <<>> ELSE InsertDesc(SortIndicesDesc(keys, n - 1), n, keys)

SortSliceDesc(s, keys) ==
    LET sorted == SortIndicesDesc(keys, Len(s))
    IN  [k \in DOMAIN s |-> s[sorted[k]]]

RECURSIVE SumSizes(_, _)
SumSizes(revisions, indices) ==
    IF indices = {} THEN 0
    ELSE LET j == CHOOSE x \in indices : TRUE
         IN  revisions[j].Size + SumSizes(revisions, indices \ {j})

\* analyzeContributors.  order is the order in which the map contributorStats
\* is walked when it is copied to the slice; the sort keeps it among
\* contributors of equal edit counts.
analyzeContributors(revisions, order, outcome, now) ==
    LET Of(u) == {j \in DOMAIN revisions : revisions[j].User = u}
        MinOf(S) == CHOOSE x \in S : \A y \in S : x <= y
        MaxOf(S) == CHOOSE x \in S : \A y \in S : x >= y
        stats == [i \in DOMAIN order |->
                    [Username       |-> order[i],
                     EditCount      |-> Cardinality(Of(order[i])),
                     FirstEdit      |-> MinOf({revisions[j].Timestamp : j \in Of(order[i])}),
                     LastEdit       |-> MaxOf({revisions[j].Timestamp : j \in Of(order[i])}),
                     TotalSizeDiff  |-> SumSizes(revisions, Of(order[i])),
                     IsAnonymous    |-> revisions[MinOf(Of(order[i]))].Anon = "true",
                     SuspicionScore |-> 0,
                     SuspicionFlags |-> <<>>,
                     AnalysisError  |-> ""]]
        topContributors == SortSliceDesc(stats, [i \in DOMAIN stats |-> stats[i].EditCount])
    IN  analyzeContributorSuspicion(
            SubSeq(topContributors, 1, Min(Len(topContributors), 20)), outcome, now)

\* analyzeConflicts; sevenDaysAgo := time.Now().AddDate(0, 0, -7)
analyzeConflicts(revisions, now) ==
    LET reverts == {j \in DOMAIN revisions : PageAnalyzer_detectRevert(revisions[j].Comment)}
    IN  IF Len(revisions) = 0
        THEN [ReversionsCount  |-> 0,
              RecentConflicts  |-> 0,
              ControversyScore |-> Zero,
              EditWarPeriods   |-> <<>>]
        ELSE [ReversionsCount  |-> Cardinality(reverts),
              RecentConflicts  |->
                  Cardinality({j \in reverts : revisions[j].Timestamp > now - 7 * Day}),
              ControversyScore |-> Ratio(Cardinality(reverts), Len(revisions)),
              EditWarPeriods   |-> detectEditWarPeriods(revisions)]

analyzeQuality(revisions, contributors, now) ==
    IF Len(revisions) = 0
    THEN [AnonymousEditRatio   |-> Zero,
          RecentActivityBurst  |-> FALSE,
          ContributorDiversity |-> Zero]
    ELSE [AnonymousEditRatio   |->
              Ratio(Cardinality({j \in DOMAIN revisions : revisions[j].Anon = "true"}),
                    Len(revisions)),
          RecentActivityBurst  |->
              Cardinality({j \in DOMAIN revisions :
                              revisions[j].Timestamp > now - 7 * Day}) > 10,
          ContributorDiversity |->
              IF Len(contributors) > 0 THEN calculateContributorDiversity(contributors)
              ELSE Zero]

\* GetPageProfile from step 6 on: totalRevisions is len(revisions) of
\* GetPageRevisions, detailedHistory what GetPageHistory returned.
GetPageProfile(totalRevisions, history, order, outcome, now) ==
    LET contributors == analyzeContributors(history, order, outcome, now)
        profile ==
            [TotalRevisions |-> totalRevisions,
             Contributors   |-> contributors,
             ConflictStats  |-> analyzeConflicts(history, now),
             QualityMetrics |-> analyzeQuality(history, contributors, now)]
        result == PageAnalyzer_calculateSuspicionScore(profile, now)
    IN  profile @@ [SuspicionScore |-> result.score,
                    SuspicionFlags |-> result.flags]

-----------------------------------------------------------------------------
(* CrossPageAnalyzer (cross_page.go): the score of a cross-page run *)

\* The weighted sum without its limit
calculateCoordinationScoreUnlimited(patterns) ==
    10 * Len(patterns.MutualSupportPairs)
        + 15 * Len(patterns.TagTeamEditing)
        + 20 * Len(patterns.CoordinatedReversions)
        + 25 * Len(patterns.SupportNetworks)

\* The tag-team, coordinated-reversion and support-network detectors are stubs
\* that return empty lists, so only the pairs count.
calculateCoordinationScore(patterns) ==
    Min(100, 10 * Len(patterns.MutualSupportPairs)
             + 15 * Len(patterns.TagTeamEditing)
             + 20 * Len(patterns.CoordinatedReversions)
             + 25 * Len(patterns.SupportNetworks))

calculateCrossPageSuspicion(coordinated, sockpuppets, contributors) ==
    LET s1 == AddRuleIf(NoScore, Len(coordinated.MutualSupportPairs) > 0,
                        25, "MUTUAL_SUPPORT_DETECTED")
        s2 == AddRuleIf(s1, coordinated.CoordinationScore > 50,
                        20, "HIGH_COORDINATION_SCORE")
        s3 == AddRuleIf(s2, Len(sockpuppets) > 0, 30, "SOCKPUPPET_NETWORK_DETECTED")
        multiPageContributors ==
            Cardinality({i \in DOMAIN contributors : Len(contributors[i].PagesEdited) > 1})
        s4 == AddRuleIf(s3, multiPageContributors > Len(contributors) \div 2,
                        15, "HIGH_CONTRIBUTOR_OVERLAP")
    IN  Limit(s4)

\* analyzeCoordinationPatterns, given the pairs detectMutualSupport reported
analyzeCoordinationPatterns(mutualSupportPairs) ==
    LET patterns == [MutualSupportPairs    |-> mutualSupportPairs,
                     TagTeamEditing        |-> <<>>,
                     CoordinatedReversions |-> <<>>,
                     SupportNetworks       |-> <<>>]
    IN  patterns @@ [CoordinationScore |-> calculateCoordinationScore(patterns)]

\* Steps 5 and 6 of AnalyzePages and the analysis it returns
CrossPageAnalysis(commonContributors, coordinatedPatterns) ==
    LET sockpuppetNetworks == <<>>
        result == calculateCrossPageSuspicion(coordinatedPatterns, sockpuppetNetworks,
                                              commonContributors)
    IN  [CommonContributors  |-> commonContributors,
         CoordinatedPatterns |-> coordinatedPatterns,
         SockpuppetNetworks  |-> sockpuppetNetworks,
         SuspicionScore      |-> result.score,
         SuspicionFlags      |-> result.flags]

-----------------------------------------------------------------------------
(* The scoring specification: one entity is scored from what the API calls   *)
(* of its analysis returned.                                                 *)

\* The wall-clock time of the analysis (time.Now()), in seconds.
Now == 1000 * Day

\* How many contributions GetUserContributionsWithTags returned (at most 100).
ContributionCounts == {0, 10, 100}

\* No registration date, registered one second less than 30 days ago, and
\* registered exactly 30 days ago.
RegistrationDates == {NoDate, Now - 30 * Day + 1, Now - 30 * Day}

\* Not blocked, blocked for ever, blocked until a date.
Blocks ==
    { [BlockExpiry |-> "",                     BlockedBy |-> ""],
      [BlockExpiry |-> "infinity",             BlockedBy |-> "Admin"],
      [BlockExpiry |-> "2030-01-01T00:00:00Z", BlockedBy |-> "Admin"] }

UserInfos(editCounts, registrations) ==
    { [Name         |-> "U",
       EditCount    |-> e,
       Groups       |-> g,
       Registration |-> r,
       BlockExpiry  |-> b.BlockExpiry,
       BlockedBy    |-> b.BlockedBy] :
         e \in editCounts,
         g \in {<<"*", "user">>, <<"*", "user", "sysop">>},
         r \in registrations,
         b \in Blocks }

\* n contributions, newest first: the first topCount on the article P1, the
\* first mainCount in the main namespace, the first emptyCount with a blank
\* comment.
MkContributions(n, topCount, mainCount, emptyCount) ==
    [i \in 1..n |->
        [RevID     |-> i,
         PageID    |-> (IF i <= topCount THEN 1 ELSE 2) + (IF i <= mainCount THEN 0 ELSE 2),
         Title     |-> (IF i <= mainCount THEN "" ELSE "Talk:")
                          \o (IF i <= topCount THEN "P1" ELSE "P2"),
         NS        |-> IF i <= mainCount THEN 0 ELSE 1,
         User      |-> "U",
         Timestamp |-> Now - i * SecondsPerHour,
         Comment   |-> IF i <= emptyCount THEN <<" ">> ELSE CommentFix,
         SizeDiff  |-> 10]]

\* The revoked counts at and next to the thresholds of the ratio rule.
RevokedCounts(n) ==
    IF n = 0 THEN {0}
    ELSE IF n = 10 THEN {0, 2, 3, 5, 6}
    ELSE {20, 21, 30, 31, 50, 51}

\* The users who revert in the scored cases
Reverters == {"X"}

\* count revoked contributions, the first vandal of them reverted as vandalism,
\* the first byX of them reverted by the user X and the others known from tags.
MkRevoked(count, vandal, byX) ==
    [i \in 1..count |->
        [OriginalContrib |-> [RevID |-> i],
         RevertType      |-> IF i <= vandal THEN "vandalism_revert" ELSE "generic_revert",
         RevokedBy       |-> IF i <= byX THEN "X" ELSE "system_detected"]]

ScoreUser ==
    /\ pc = "input"
    /\ pc' = "done"
    /\ \E n \in ContributionCounts :
         \E userInfo \in UserInfos({n, n + 50, n + 500}, RegistrationDates),
            topCount \in {n, n \div 2},
            mainCount \in {n, (9 * n) \div 10},
            emptyCount \in {(7 * n) \div 10, (8 * n) \div 10},
            count \in RevokedCounts(n),
            vandal \in {0, 6, 11},
            byX \in BOOLEAN :
              scored' = <<[kind |-> "user", userInfo |-> userInfo] @@
                          GetUserProfile(userInfo,
                              MkContributions(n, topCount, mainCount, emptyCount),
                              MkRevoked(count, Min(vandal, count), IF byX THEN count ELSE 0),
                              Now)>>
    /\ UNCHANGED <<editWarVars, supportVars, revokedVars, runVars>>

\* Three users as GetUserProfile sees them: one no rule fires for, one with a
\* single rule of weight 15, one for whom every rule fires.
CleanUser ==
    GetUserProfile([Name |-> "U", EditCount |-> 60, Groups |-> <<"*", "user", "sysop">>,
                    Registration |-> NoDate, BlockExpiry |-> "", BlockedBy |-> ""],
                   MkContributions(10, 5, 5, 0), MkRevoked(0, 0, 0), Now)

FocusedUser ==
    GetUserProfile([Name |-> "U", EditCount |-> 150, Groups |-> <<"*", "user", "sysop">>,
                    Registration |-> NoDate, BlockExpiry |-> "", BlockedBy |-> ""],
                   MkContributions(100, 100, 90, 0), MkRevoked(0, 0, 0), Now)

WorstUser ==
    GetUserProfile([Name |-> "U", EditCount |-> 150, Groups |-> <<"*", "user">>,
                    Registration |-> Now - 6 * Day,
                    BlockExpiry |-> "2030-01-01T00:00:00Z", BlockedBy |-> "Admin"],
                   MkContributions(100, 100, 100, 80), MkRevoked(51, 11, 51), Now)

\* The revision to score: its comment, whether it is anonymous, its size.
EditRevisions ==
    [RevID : {1}, Comment : {CommentPOV, CommentRv}, Anon : {"", "true"}, Size : {10000}]

\* Sizes of the parent revision: 5000 and 5001 characters added, 2000 and 2001
\* characters removed.
ParentSizes == {5000, 4999, 12000, 12001}

ScoreEdit ==
    /\ pc = "input"
    /\ pc' = "done"
    /\ \E revision \in EditRevisions,
          parentSize \in ParentSizes,
          povWords \in {3, 4},
          userInfo \in UserInfos({150}, {NoDate, Now - 6 * Day, Now - 7 * Day}),
          userProfile \in {CleanUser, FocusedUser, WorstUser},
          editsLast24h \in {50, 51} :
            scored' = <<[kind |-> "edit"] @@
                        GetContributionProfile(revision, parentSize, povWords, userInfo,
                                               editsLast24h, userProfile, Now)>>
    /\ UNCHANGED <<editWarVars, supportVars, revokedVars, runVars>>

\* The edit counts of the contributors of a page history, largest first.
ContributorCounts ==
    { <<>>, <<20>>, <<10, 10>>, <<17, 1, 1, 1>>, <<8, 5, 4, 2, 1>>,
      <<7, 7, 7, 7, 7, 7, 7, 7, 7, 7, 6>> }

RECURSIVE SumSeq(_, _)
SumSeq(s, n) == IF n = 0 THEN 0 ELSE s[n] + SumSeq(s, n - 1)

UserName(k) == "U" \o ToString(k)

\* A page history, oldest first, in which contributor k made counts[k]
\* revisions in a row; the last reversions revisions are reverts, the last
\* recent revisions are 12 hours old and the others oldDays days, the first
\* anonUsers contributors are anonymous.
MkHistory(counts, reversions, recent, oldDays, anonUsers, size) ==
    LET len == SumSeq(counts, Len(counts))
        UserOf(j) == CHOOSE k \in DOMAIN counts :
                        SumSeq(counts, k - 1) < j /\ j <= SumSeq(counts, k)
    IN  [j \in 1..len |->
            [User      |-> UserName(UserOf(j)),
             Anon      |-> IF UserOf(j) <= anonUsers THEN "true" ELSE "",
             Comment   |-> IF j > len - reversions THEN CommentRv ELSE CommentPOV,
             Timestamp |-> (IF j > len - recent THEN Now - 12 * SecondsPerHour
                            ELSE Now - oldDays * Day) - (len - j),
             Size      |-> size]]

\* Two orders in which the map of contributors can be walked.
MapOrders(n) == { [k \in 1..n |-> UserName(k)], [k \in 1..n |-> UserName(n + 1 - k)] }

ScorePage ==
    /\ pc = "input"
    /\ pc' = "done"
    /\ \E counts \in ContributorCounts :
         LET len == SumSeq(counts, Len(counts))
             top == IF counts = <<>> THEN 0 ELSE counts[1]
             \* the long history is tried with fewer of the other choices
             long == Len(counts) > 5
         IN  \E reversions \in (IF long THEN {0}
                                ELSE {0, (3 * len) \div 10, (3 * len) \div 10 + 1}),
                recent \in (IF long THEN {Min(len, 5), len}
                            ELSE {Min(len, 5), Min(len, 10), Min(len, 11), len}),
                oldDays \in {8, 30},
                anonUsers \in {0, 1, Len(counts)},
                size \in {100, 6000},
                totalRevisions \in (IF long THEN {101}
                                    ELSE {Max(len, 2 * top - 1), Max(len, 2 * top), 101}),
                order \in MapOrders(Len(counts)),
                first \in {Failed, Analysed(CleanUser), Analysed(WorstUser)},
                others \in {Failed, Analysed(FocusedUser)} :
                  scored' = <<[kind |-> "page",
                               outcome |-> [u \in Range(order) |->
                                              IF u = UserName(1) THEN first ELSE others]] @@
                              GetPageProfile(totalRevisions,
                                  MkHistory(counts, reversions, recent, oldDays,
                                            anonUsers, size),
                                  order,
                                  [u \in Range(order) |->
                                      IF u = UserName(1) THEN first ELSE others],
                                  Now)>>
    /\ UNCHANGED <<editWarVars, supportVars, revokedVars, runVars>>

\* The most pairs a scored cross-page run reports: one more than the score
\* can count before its limit.
MaxPairs == 11

\* The common contributors of a run: who edited several pages and who one.
CommonContributorLists ==
    LET multi(u)  == [Username |-> u, PagesEdited |-> <<"P1", "P2">>, TotalEdits |-> 4,
                      IsAnonymous |-> FALSE]
        single(u) == [Username |-> u, PagesEdited |-> <<"P1">>, TotalEdits |-> 3,
                      IsAnonymous |-> FALSE]
    IN  { <<>>, <<multi("A")>>, <<multi("A"), single("B")>>,
          <<multi("A"), multi("B"), single("C")>> }

ScoreCrossPage ==
    /\ pc = "input"
    /\ pc' = "done"
    /\ \E k \in 0..MaxPairs, commonContributors \in CommonContributorLists :
          scored' = <<[kind |-> "crosspage"] @@
                      CrossPageAnalysis(commonContributors,
                          analyzeCoordinationPatterns(
                              [i \in 1..k |-> [UserA |-> UserName(i),
                                               UserB |-> UserName(i + 1),
                                               SuspicionLevel |-> "LOW"]]))>>
    /\ UNCHANGED <<editWarVars, supportVars, revokedVars, runVars>>

InitScore == pc = "input" /\ Idle

NextScore == ScoreCrossPage \/ ScoreUser \/ ScoreEdit \/ ScorePage

SpecScore == InitScore /\ [][NextScore]_vars

-----------------------------------------------------------------------------
(* UserAnalyzer (user.go): revocations detected from the contributions *)

RevokedTags(lang) ==
    << <<"m","w","-","r","e","v","e","r","t","e","d">>, <<"m","w","-","r","o","l","l","b","a","c","k">>, <<"r","e","v","e","r","t","e","d">> >>
        \o (CASE lang = "fr" -> << <<"r","é","v","o","q","u","é">>, <<"a","n","n","u","l","é">> >>
              [] lang = "de" -> << <<"r","ü","c","k","g","ä","n","g","i","g">> >>
              [] lang = "es" -> << <<"r","e","v","e","r","t","i","d","o">> >>
              [] OTHER -> <<>>)

isRevokedByTags(tags, lang) ==
    \E i \in DOMAIN tags : ContainsAny(ToLower(tags[i]), RevokedTags(lang))

\* What the body of classifyRevertTypeFromTags's loop returns for one tag
\* ("": it goes on to the next tag)
TagRevertType(tagLower) ==
    IF Contains(tagLower, <<"v","a","n","d","a","l">>) THEN "vandalism_revert"
    ELSE IF Contains(tagLower, <<"r","o","l","l","b","a","c","k">>) THEN "rollback"
    ELSE IF Contains(tagLower, <<"r","e","v","e","r","t","e","d">>) \/ Contains(tagLower, <<"r","é","v","o","q","u","é">>)
    THEN "generic_revert"
    ELSE ""

classifyRevertTypeFromTags(tags) ==
    IF \E i \in DOMAIN tags : TagRevertType(ToLower(tags[i])) # ""
    THEN TagRevertType(ToLower(tags[
             CHOOSE i \in DOMAIN tags :
                /\ TagRevertType(ToLower(tags[i])) # ""
                /\ \A j \in 1..(i - 1) : TagRevertType(ToLower(tags[j])) = ""]))
    ELSE "system_detected"

classifyRevertType(comment, lang) ==
    CASE lang = "fr" ->
            IF \/ Contains(ToLower(comment), <<"v","a","n","d","a","l","i","s","m","e">>)
               \/ Contains(ToLower(comment), <<"v","a","n","d","a","l","i","s","é">>) THEN "vandalism_revert"
            ELSE IF Contains(ToLower(comment), <<"r","o","l","l","b","a","c","k">>) THEN "rollback"
            ELSE IF \/ Contains(ToLower(comment), <<"a","n","n","u","l","a","t","i","o","n">>)
                    \/ Contains(ToLower(comment), <<"a","n","n","u","l","é">>) THEN "undo"
            ELSE IF \/ Contains(ToLower(comment), <<"r","e","s","t","a","u","r","é">>)
                    \/ Contains(ToLower(comment), <<"r","e","s","t","o","r","a","t","i","o","n">>) THEN "restore"
            ELSE IF \/ Contains(ToLower(comment), <<"r","v">>)
                    \/ Contains(ToLower(comment), <<"r","v","t">>) THEN "manual_revert"
            ELSE "generic_revert"
      [] lang = "de" ->
            IF Contains(ToLower(comment), <<"v","a","n","d","a","l","i","s","m","u","s">>) THEN "vandalism_revert"
            ELSE IF Contains(ToLower(comment), <<"r","o","l","l","b","a","c","k">>) THEN "rollback"
            ELSE IF Contains(ToLower(comment), <<"r","ü","c","k","g","ä","n","g","i","g">>) THEN "undo"
            ELSE "generic_revert"
      [] lang = "es" ->
            IF Contains(ToLower(comment), <<"v","a","n","d","a","l","i","s","m","o">>) THEN "vandalism_revert"
            ELSE IF Contains(ToLower(comment), <<"r","o","l","l","b","a","c","k">>) THEN "rollback"
            ELSE IF Contains(ToLower(comment), <<"d","e","s","h","a","c","e","r">>) THEN "undo"
            ELSE "generic_revert"
      [] OTHER ->
            IF \/ Contains(ToLower(comment), <<"v","a","n","d","a","l","i","s","m">>)
               \/ Contains(ToLower(comment), <<"v","a","n","d","a","l">>) THEN "vandalism_revert"
            ELSE IF Contains(ToLower(comment), <<"r","o","l","l","b","a","c","k">>) THEN "rollback"
            ELSE IF Contains(ToLower(comment), <<"u","n","d","o">>) THEN "undo"
            ELSE IF Contains(ToLower(comment), <<"r","e","s","t","o","r","e">>) THEN "restore"
            ELSE IF Contains(ToLower(comment), <<"r","v">>) THEN "manual_revert"
            ELSE "generic_revert"

\* models.Contribution of a WikiContribution
OriginalContribOf(contrib) ==
    [RevID     |-> contrib.RevID,
     PageTitle |-> contrib.Title,
     Namespace |-> contrib.NS,
     Timestamp |-> contrib.Timestamp,
     Comment   |-> contrib.Comment,
     SizeDiff  |-> contrib.SizeDiff]

\* The record of the first loop of detectDirectRevocations
TagRevocation(contrib) ==
    [OriginalContrib |-> OriginalContribOf(contrib),
     RevokedBy       |-> "system_detected",
     RevokedAt       |-> contrib.Timestamp,
     RevertComment   |-> <<"D","e","t","e","c","t","e","d"," ","f","r","o","m"," ","r","e","v","i","s","i","o","n"," ","t","a","g","s">>,
     PageTitle       |-> contrib.Title,
     RevertType      |-> classifyRevertTypeFromTags(contrib.Tags)]

\* The record of the second loop
TemporalRevocation(contrib, nextContrib, lang) ==
    [OriginalContrib |-> OriginalContribOf(contrib),
     RevokedBy       |-> nextContrib.User,
     RevokedAt       |-> nextContrib.Timestamp,
     RevertComment   |-> nextContrib.Comment,
     PageTitle       |-> contrib.Title,
     RevertType      |-> classifyRevertType(nextContrib.Comment, lang)]

\* The tests of the second loop on a contribution and the one after it
LooksUndone(contrib, nextContrib) ==
    /\ contrib.Title = nextContrib.Title
    /\ nextContrib.Timestamp - contrib.Timestamp <= 24 * SecondsPerHour
    /\ contrib.User # nextContrib.User
    /\ \/ (contrib.SizeDiff > 0 /\ nextContrib.SizeDiff < 0)
       \/ (contrib.SizeDiff < 0 /\ nextContrib.SizeDiff > 0)
    /\ contrib.SizeDiff + nextContrib.SizeDiff < 100
    /\ contrib.SizeDiff + nextContrib.SizeDiff > -100

\* The second loop without its test of what has been detected
NeverDetected(found, contrib) == FALSE

\* alreadyDetected of the second loop
AlreadyDetected(found, contrib) ==
    \E k \in DOMAIN found : found[k].OriginalContrib.RevID = contrib.RevID

\* The second loop from index i on; found is what has been appended so far
RECURSIVE TemporalLoop(_, _, _, _)
TemporalLoop(contribs, i, found, lang) ==
    IF i > Len(contribs) THEN found
    ELSE TemporalLoop(contribs, i + 1,
            IF /\ ~AlreadyDetected(found, contribs[i])
               /\ i < Len(contribs)
               /\ LooksUndone(contribs[i], contribs[i + 1])
            THEN Append(found, TemporalRevocation(contribs[i], contribs[i + 1], lang))
            ELSE found,
            lang)

\* The contributions the first loop keeps
TaggedRevoked(contribs, lang) ==
    SelectSeq(contribs, LAMBDA c : Len(c.Tags) > 0 /\ isRevokedByTags(c.Tags, lang))

detectDirectRevocations(contribs, lang) ==
    TemporalLoop(contribs, 1,
                 [k \in DOMAIN TaggedRevoked(contribs, lang) |->
                     TagRevocation(TaggedRevoked(contribs, lang)[k])],
                 lang)

-----------------------------------------------------------------------------
(* The revocation specification: the contributions of a user arrive newest   *)
(* first and detectDirectRevocations runs on them.                           *)

MaxContributions == 2

Languages == {"en", "fr"}

\* No tag, a tag that tells of no revert, the tag of a reverted edit after a
\* tag of another kind, the tags of an edit rolled back as vandalism, and the
\* French tag of a cancelled edit.
TagLists ==
    { <<>>,
      << <<"m","w","-","u","n","d","o">> >>,
      << <<"m","o","b","i","l","e"," ","e","d","i","t">>, <<"m","w","-","r","e","v","e","r","t","e","d">> >>,
      << <<"m","w","-","r","o","l","l","b","a","c","k">>, <<"p","o","s","s","i","b","l","e"," ","v","a","n","d","a","l","i","s","m">> >>,
      << <<"a","n","n","u","l","é">> >> }

\* What a contribution does: an addition, and a removal of about as many
\* bytes whose comment tells of a revert.
ContributionKinds ==
    { [Comment |-> CommentFix, SizeDiff |-> 120],
      [Comment |-> CommentRv,  SizeDiff |-> -150] }

\* NewUserAnalyzer on a client of another language
NewUserAnalyzer ==
    /\ pc = "input"
    /\ contributions = <<>>
    /\ \E lang \in Languages \ {language} : language' = lang
    /\ UNCHANGED <<pc, contributions, revocations, recentContribs, editWarVars, supportVars,
                   scoreVars, runVars>>

\* The next contribution of the list the API returned, an hour older than the
\* one before it.  ucuser takes a list of users, so that consecutive
\* contributions can be of different users.
FetchContribution ==
    /\ pc = "input"
    /\ Len(contributions) < MaxContributions
    /\ \E title \in Pages, user \in {"U", "V"}, kind \in ContributionKinds,
          tags \in TagLists :
          contributions' = Append(contributions,
              [RevID     |-> 100 - Len(contributions),
               Title     |-> title,
               NS        |-> 0,
               User      |-> user,
               Timestamp |-> Now - Len(contributions) * SecondsPerHour,
               Comment   |-> kind.Comment,
               SizeDiff  |-> kind.SizeDiff,
               Tags      |-> tags])
    /\ UNCHANGED <<pc, language, revocations, recentContribs, editWarVars, supportVars,
                   scoreVars, runVars>>

DetectDirectRevocations ==
    /\ pc = "input"
    /\ pc' = "done"
    /\ revocations' = detectDirectRevocations(contributions, language)
    /\ UNCHANGED <<language, contributions, recentContribs, editWarVars, supportVars,
                   scoreVars, runVars>>

InitRevoked == pc = "input" /\ Idle

NextRevoked == NewUserAnalyzer \/ FetchContribution \/ DetectDirectRevocations

SpecRevoked == InitRevoked /\ [][NextRevoked]_vars

-----------------------------------------------------------------------------
(* CrossPageAnalyzer (cross_page.go): a run of AnalyzePages *)

\* extractContributors for one page profile; all is the map allContributors,
\* as the set of its entries
extractContributors(profile, pageName, all) ==
    LET Listed(u) == \E i \in DOMAIN profile.Contributors :
                        profile.Contributors[i].Username = u
        Entry(u) == profile.Contributors[
                        CHOOSE i \in DOMAIN profile.Contributors :
                            profile.Contributors[i].Username = u]
    IN  { IF Listed(c.Username)
          THEN [c EXCEPT !.PagesEdited = Append(@, pageName),
                         !.TotalEdits = @ + Entry(c.Username).EditCount,
                         !.EditsByPage = (pageName :> Entry(c.Username).EditCount) @@ @]
          ELSE c : c \in all }
        \cup
        { [Username       |-> profile.Contributors[i].Username,
           PagesEdited    |-> <<pageName>>,
           TotalEdits     |-> profile.Contributors[i].EditCount,
           EditsByPage    |-> (pageName :> profile.Contributors[i].EditCount),
           SuspicionScore |-> profile.Contributors[i].SuspicionScore,
           IsAnonymous    |-> profile.Contributors[i].IsAnonymous] :
             i \in {j \in DOMAIN profile.Contributors :
                       \A c \in all : c.Username # profile.Contributors[j].Username} }

\* extractRevisions for one page profile
extractRevisions(profile, pageName) ==
    [i \in DOMAIN profile.RecentRevisions |->
        EditEventOf(profile.RecentRevisions[i].Timestamp,
                    profile.RecentRevisions[i].Username,
                    pageName,
                    profile.RecentRevisions[i].RevID,
                    profile.RecentRevisions[i].Kind)]

\* The pages of the run, in the order of the command line
PageNames == <<"P1", "P2">>

\* allContributors and allRevisions after the first n pages of step 1
RECURSIVE ExtractedContributors(_, _)
ExtractedContributors(profiles, n) ==
    IF n = 0 THEN {}
    ELSE extractContributors(profiles[n], PageNames[n],
                             ExtractedContributors(profiles, n - 1))

RECURSIVE ExtractedRevisions(_, _)
ExtractedRevisions(profiles, n) ==
    IF n = 0 THEN <<>>
    ELSE ExtractedRevisions(profiles, n - 1) \o extractRevisions(profiles[n], PageNames[n])

MinCommonEdits == 3

\* identifyCommonContributors; order is the order in which the map is walked
identifyCommonContributors(all, order) ==
    LET Entry(u) == CHOOSE c \in all : c.Username = u
        kept == SelectSeq(order, LAMBDA u : \/ Len(Entry(u).PagesEdited) > 1
                                            \/ Entry(u).TotalEdits >= MinCommonEdits)
    IN  SortSliceDesc([k \in DOMAIN kept |-> Entry(kept[k])],
                      [k \in DOMAIN kept |-> Entry(kept[k]).TotalEdits])

\* The pairs (i, j), i < j, of all the users
createUserPairsOfAll(contributors) ==
    LET P == {p \in (DOMAIN contributors) \X (DOMAIN contributors) : p[1] < p[2]}
        Before(q, p) == q[1] < p[1] \/ (q[1] = p[1] /\ q[2] < p[2])
        Nth(k) == CHOOSE p \in P : Cardinality({q \in P : Before(q, p)}) = k - 1
    IN  [k \in 1..Cardinality(P) |->
            <<contributors[Nth(k)[1]].Username, contributors[Nth(k)[2]].Username>>]

\* createUserPairs: the pairs (i, j), i < j, of users who are not anonymous, in
\* the order of the two loops
createUserPairs(contributors) ==
    LET P == {p \in (DOMAIN contributors) \X (DOMAIN contributors) :
                 /\ p[1] < p[2]
                 /\ ~contributors[p[1]].IsAnonymous
                 /\ ~contributors[p[2]].IsAnonymous}
        Before(q, p) == q[1] < p[1] \/ (q[1] = p[1] /\ q[2] < p[2])
        Nth(k) == CHOOSE p \in P : Cardinality({q \in P : Before(q, p)}) = k - 1
    IN  [k \in 1..Cardinality(P) |->
            <<contributors[Nth(k)[1]].Username, contributors[Nth(k)[2]].Username>>]

\* extractPagesFromSupportEvents; pageOrder is the order in which the map
\* pageSet is walked
extractPagesFromSupportEvents(events, pageOrder) ==
    SelectSeq(pageOrder, LAMBDA p : \E k \in DOMAIN events : events[k].PageTitle = p)

\* A less function that looks at the ratios only
PairBeforeByRatio(p, q) ==
    p.MutualSupportRatio.num * q.MutualSupportRatio.den
        > q.MutualSupportRatio.num * p.MutualSupportRatio.den

\* The less function of the last sort of detectMutualSupport
PairBefore(p, q) ==
    IF p.SuspicionLevel # q.SuspicionLevel
    THEN getSuspicionLevelScore(p.SuspicionLevel) > getSuspicionLevelScore(q.SuspicionLevel)
    ELSE p.MutualSupportRatio.num * q.MutualSupportRatio.den
            > q.MutualSupportRatio.num * p.MutualSupportRatio.den

\* sort.Slice on at most 12 pairs, an insertion sort
RECURSIVE InsertPair(_, _)
InsertPair(sorted, p) ==
    IF sorted = <<>> THEN <<p>>
    ELSE IF PairBefore(p, sorted[Len(sorted)])
         THEN Append(InsertPair(SubSeq(sorted, 1, Len(sorted) - 1), p), sorted[Len(sorted)])
         ELSE Append(sorted, p)

RECURSIVE SortPairs(_, _)
SortPairs(pairs, n) ==
    IF n = 0 THEN <<>> ELSE InsertPair(SortPairs(pairs, n - 1), pairs[n])

\* The pair detectMutualSupport's loop appends, if any
ReportedPair(pair, revisions, pageOrder) ==
    EvaluatePair(pair[1], pair[2], revisions)
        @@ [PagesInvolved |->
                extractPagesFromSupportEvents(
                    findSupportEvents(pair[1], pair[2], revisions), pageOrder)]

IsReported(pair) == Len(pair.SupportEvents) > 0 /\ pair.SuspicionLevel # "NONE"

detectMutualSupport(contributors, revisions, pageOrder) ==
    LET userPairs == createUserPairs(contributors)
        reported == SelectSeq([k \in DOMAIN userPairs |->
                                  ReportedPair(userPairs[k], SortByTimestamp(revisions),
                                               pageOrder)],
                              IsReported)
    IN  SortPairs(reported, Len(reported))

\* AnalyzePages from the page profiles on
AnalyzePages(profiles, order, pageOrder) ==
    LET common == identifyCommonContributors(
                      ExtractedContributors(profiles, Len(profiles)), order)
    IN  CrossPageAnalysis(common,
            analyzeCoordinationPatterns(
                detectMutualSupport(common, ExtractedRevisions(profiles, Len(profiles)),
                                    pageOrder)))

-----------------------------------------------------------------------------
(* The run specification: the page profiles of a dataset are made, then      *)
(* AnalyzePages runs on them, more than once.                                *)

MaxRuns == 2

\* The orders in which a map with the keys S can be walked
IterationOrders(S) ==
    {f \in [1..Cardinality(S) -> S] : \A x \in S : \E i \in 1..Cardinality(S) : f[i] = x}

\* The top contributors of a page profile
ContributorLists ==
    LET c(u, n) == [Username |-> u, EditCount |-> n, SuspicionScore |-> 0,
                    IsAnonymous |-> FALSE]
    IN  { <<>>,
          <<c("A", 2), c("B", 2)>>,
          <<c("C", 3), c("A", 2), c("B", 1)>> }

\* The recent revisions of the page profile of PageNames[n]
RevisionLists(n) ==
    LET r(k, u, kind) == [Timestamp |-> 1000 * n + 30 * k, Username |-> u,
                          RevID |-> 10 * n + k, Kind |-> kind]
        edit == [Comment |-> CommentPOV, SizeDiff |-> 60]
        revert == [Comment |-> CommentRv, SizeDiff |-> -150]
    IN  { <<>>,
          <<r(1, "A", edit), r(2, "B", revert)>>,
          <<r(1, "C", edit), r(2, "A", revert), r(3, "B", revert), r(4, "A", revert)>> }

\* Step 1 of AnalyzePages for the next page: GetPageProfile
FetchPageProfile ==
    /\ pc = "input"
    /\ Len(pageProfiles) < Len(PageNames)
    /\ \E contributors \in ContributorLists,
          revisions \in RevisionLists(Len(pageProfiles) + 1) :
          pageProfiles' = Append(pageProfiles,
                                 [Contributors |-> contributors,
                                  RecentRevisions |-> revisions])
    /\ UNCHANGED <<pc, runs, analysis, editWarVars, supportVars, scoreVars, revokedVars>>

\* One run of AnalyzePages on the page profiles
RunAnalyzePages ==
    /\ Len(runs) < MaxRuns
    /\ pc' = "done"
    /\ \E order \in IterationOrders({c.Username :
                        c \in ExtractedContributors(pageProfiles, Len(pageProfiles))}),
          pageOrder \in IterationOrders(Pages) :
          runs' = Append(runs, AnalyzePages(pageProfiles, order, pageOrder))
    /\ UNCHANGED <<pageProfiles, analysis, editWarVars, supportVars, scoreVars, revokedVars>>

InitRuns == pc = "input" /\ Idle

NextRuns == FetchPageProfile \/ RunAnalyzePages

SpecRuns == InitRuns /\ [][NextRuns]_vars

-----------------------------------------------------------------------------
(* CrossPageAnalyzer (cross_page.go): AnalyzePages step by step, from the    *)
(* making of the analyzer to the report                                      *)

\* NewCrossPageAnalyzer: the options with their defaults (ratios in tenths)
NewCrossPageAnalyzer(options) ==
    [MinCommonEdits        |-> IF options.MinCommonEdits = 0 THEN 3 ELSE options.MinCommonEdits,
     MaxReactionTime       |-> IF options.MaxReactionTime = 0 THEN 60 ELSE options.MaxReactionTime,
     MinMutualSupportRatio |-> IF options.MinMutualSupportRatio = 0 THEN 3
                               ELSE options.MinMutualSupportRatio]

\* The loop of step 1 has dealt with a page
PageDone(outcomes) == Len(outcomes) >= 1

\* The loop of step 1 has run out of pages
AllPagesDone(outcomes) == Len(outcomes) = Len(PageNames)

\* A turn of the loop that, GetPageProfile having failed, stores the page
SkippedPageStored(a) ==
    [a EXCEPT !.outcomes     = Append(@, Failed),
              !.pageProfiles = @ \cup {PageNames[Len(a.outcomes) + 1]}]

\* A turn of the loop when GetPageProfile failed: continue
SkippedPage(a) == [a EXCEPT !.outcomes = Append(@, Failed)]

\* A turn of the loop when GetPageProfile returned the profile
AnalyzedPage(a, profile) ==
    [a EXCEPT !.outcomes        = Append(@, profile),
              !.pageProfiles    = @ \cup {PageNames[Len(a.outcomes) + 1]},
              !.allContributors = extractContributors(profile, PageNames[Len(a.outcomes) + 1], @),
              !.allRevisions    = @ \o extractRevisions(profile, PageNames[Len(a.outcomes) + 1])]

\* The models.CrossPageAnalysis AnalyzePages returns with a nil error;
\* revisions is allRevisions as detectMutualSupport has sorted it
AnalysisReport(a, revisions, pageOrder) ==
    [Pages |-> PageNames,
     TotalPages |-> Cardinality(a.pageProfiles),
     TotalContributors |-> Cardinality(a.allContributors),
     err |-> FALSE]
    @@ CrossPageAnalysis(a.commonContributors,
           analyzeCoordinationPatterns(
               detectMutualSupport(a.commonContributors, revisions, pageOrder)))

-----------------------------------------------------------------------------
(* The page-set specification: an analyzer is made with its options, the     *)
(* pages are analysed one after the other, some of them failing, and the     *)
(* common contributors and the patterns are worked out of what was kept.     *)

\* --min-support-ratio in tenths; 0: not given
SupportRatioOptions == {0, 3, 5, 10}

\* The top contributors of a page among whom one is anonymous
AnonymousContributorLists ==
    { << [Username |-> "N", EditCount |-> 5, SuspicionScore |-> 0, IsAnonymous |-> TRUE],
         [Username |-> "A", EditCount |-> 3, SuspicionScore |-> 0, IsAnonymous |-> FALSE],
         [Username |-> "B", EditCount |-> 3, SuspicionScore |-> 0, IsAnonymous |-> FALSE],
         [Username |-> "C", EditCount |-> 1, SuspicionScore |-> 0, IsAnonymous |-> FALSE] >> }

\* Recent revisions of the page profile of PageNames[n] that are minutes
\* apart: an edit reverted after 20 minutes and again 45 minutes later, and an
\* edit reverted after an hour
SpacedRevisionLists(n) ==
    LET r(minutes, u, kind) == [Timestamp |-> 100000 * n + minutes * SecondsPerMinute,
                                Username |-> u, RevID |-> 100 * n + minutes, Kind |-> kind]
        edit == [Comment |-> CommentPOV, SizeDiff |-> 60]
        revert == [Comment |-> CommentRv, SizeDiff |-> -150]
    IN  { <<r(0, "C", edit), r(20, "A", revert), r(65, "B", revert)>>,
          <<r(0, "A", edit), r(60, "B", revert)>> }

\* What GetPageProfile can return for PageNames[n]
PageOutcomes(n) ==
    {Failed} \cup
    { [err |-> FALSE, Contributors |-> contributors, RecentRevisions |-> revisions] :
        contributors \in ContributorLists \cup AnonymousContributorLists,
        revisions \in RevisionLists(n) \cup SpacedRevisionLists(n) }

\* NewCrossPageAnalyzer with the options of the command line
StartAnalyzePages ==
    /\ pc = "input"
    /\ analysis.phase = "new"
    /\ \E ratio \in SupportRatioOptions :
          analysis' = [analysis EXCEPT
              !.phase   = "pages",
              !.options = NewCrossPageAnalyzer([MinCommonEdits |-> 0, MaxReactionTime |-> 0,
                                                MinMutualSupportRatio |-> ratio])]
    /\ UNCHANGED <<pc, pageProfiles, runs, editWarVars, supportVars, scoreVars, revokedVars>>

\* One turn of the loop of step 1
AnalyzeNextPage ==
    /\ analysis.phase = "pages"
    /\ ~AllPagesDone(analysis.outcomes)
    /\ \E outcome \in PageOutcomes(Len(analysis.outcomes) + 1) :
          analysis' = IF outcome.err THEN SkippedPage(analysis)
                      ELSE AnalyzedPage(analysis, outcome)
    /\ UNCHANGED <<pc, pageProfiles, runs, editWarVars, supportVars, scoreVars, revokedVars>>

\* Step 2, when the loop is over
IdentifyCommonContributors ==
    /\ analysis.phase = "pages"
    /\ AllPagesDone(analysis.outcomes)
    /\ \E order \in IterationOrders({c.Username : c \in analysis.allContributors}) :
          analysis' = [analysis EXCEPT
              !.phase = "common",
              !.commonContributors = identifyCommonContributors(analysis.allContributors, order)]
    /\ UNCHANGED <<pc, pageProfiles, runs, editWarVars, supportVars, scoreVars, revokedVars>>

\* Steps 3 to 6 and the return.  detectMutualSupport sorts the slice it is
\* given, which shares its array with allRevisions.
DetectPatternsAndReport ==
    /\ analysis.phase = "common"
    /\ pc' = "done"
    /\ \E pageOrder \in IterationOrders(Pages) :
          analysis' = [analysis EXCEPT
              !.phase = "done",
              !.allRevisions = SortByTimestamp(@),
              !.report = <<AnalysisReport(analysis, SortByTimestamp(analysis.allRevisions),
                                          pageOrder)>>]
    /\ UNCHANGED <<pageProfiles, runs, editWarVars, supportVars, scoreVars, revokedVars>>

\* The bands of the four metrics: a ratio of each band and of its edges
MetricRatios == {Ratio(n, 10) : n \in {0, 3, 4, 5, 6, 7, 8, 9, 10}}

ReactionTimes == {0, 9, 10, 29, 30, 59, 60, 61}

\* determineSupportSuspicionLevel on the metrics of a pair
ScoreSupportMetrics ==
    /\ pc = "input"
    /\ pc' = "done"
    /\ analysis.phase = "new"
    /\ \E mutualRatio \in MetricRatios, avgReactionTime \in ReactionTimes,
          reciprocity \in MetricRatios, exclusivity \in MetricRatios :
          scored' = <<[kind                |-> "support",
                       MutualSupportRatio  |-> mutualRatio,
                       AverageReactionTime |-> avgReactionTime,
                       ReciprocityScore    |-> reciprocity,
                       ExclusivityRatio    |-> exclusivity,
                       SuspicionLevel      |->
                           determineSupportSuspicionLevel(mutualRatio, avgReactionTime,
                                                          reciprocity, exclusivity)]>>
    /\ UNCHANGED <<editWarVars, supportVars, revokedVars, runVars>>

InitPages == pc = "input" /\ Idle

NextPages ==
    \/ StartAnalyzePages
    \/ AnalyzeNextPage
    \/ IdentifyCommonContributors
    \/ DetectPatternsAndReport
    \/ ScoreSupportMetrics

SpecPages == InitPages /\ [][NextPages]_vars

-----------------------------------------------------------------------------
(* The page-name specification: AnalyzePages takes the page names as the     *)
(* command line gives them (two at least, nothing keeps a title from being   *)
(* given twice), and analyses them one after the other.                      *)

\* The page profile GetPageProfile makes of a title: that of its page
OutcomesOfTitle(pageName) == PageOutcomes(IF pageName = PageNames[1] THEN 1 ELSE 2)

\* A turn of the loop of step 1 on the page name it ranges over
AnalyzedNamedPage(a, profile, pageName) ==
    [a EXCEPT !.outcomes        = Append(@, profile),
              !.pageProfiles    = @ \cup {pageName},
              !.allContributors = extractContributors(profile, pageName, @),
              !.allRevisions    = @ \o extractRevisions(profile, pageName)]

\* One turn of the loop of step 1; the next name of the command line is any of
\* the titles
AnalyzeNamedPage ==
    /\ analysis.phase = "pages"
    /\ ~AllPagesDone(analysis.outcomes)
    /\ \E pageName \in Pages :
          \E outcome \in OutcomesOfTitle(pageName) :
              analysis' = IF outcome.err THEN SkippedPage(analysis)
                          ELSE AnalyzedNamedPage(analysis, outcome, pageName)
    /\ UNCHANGED <<pc, pageProfiles, runs, editWarVars, supportVars, scoreVars, revokedVars>>

NextNames == StartAnalyzePages \/ AnalyzeNamedPage \/ IdentifyCommonContributors

SpecNames == InitPages /\ [][NextNames]_vars

-----------------------------------------------------------------------------
(* UserAnalyzer (user.go): the revocations found in the histories of the     *)
(* pages a user edited, and their marks on the recent contributions          *)

\* The characters of a user name; the users of the model have names of one
\* letter
NameChars(name) == <<name>>

Digits == <<"0","1","2","3","4","5","6","7","8","9">>

\* strconv.Itoa on a natural number
RECURSIVE Itoa(_)
Itoa(n) ==
    IF n < 10 THEN <<Digits[n + 1]>>
    ELSE Itoa(n \div 10) \o <<Digits[(n % 10) + 1]>>

\* The keywords of UserAnalyzer.detectRevert
DetectRevertKeywords(lang) ==
    CASE lang = "fr" ->
            << <<"r","é","v","o","q","u","é">>, <<"r","é","v","o","c","a","t","i","o","n">>, <<"a","n","n","u","l","é">>, <<"a","n","n","u","l","a","t","i","o","n">>, <<"r","v">>, <<"r","v","t">>,
               <<"r","e","s","t","a","u","r","é">>, <<"r","e","s","t","o","r","a","t","i","o","n">>, <<"r","o","l","l","b","a","c","k">>, <<"r","e","v","e","r","t">>, <<"u","n","d","o">>,
               <<"v","a","n","d","a","l","i","s","é">>, <<"v","a","n","d","a","l","i","s","m","e">>, <<"d","é","f","a","i","t">>, <<"d","é","f","a","i","r","e">> >>
      [] lang = "de" ->
            << <<"r","ü","c","k","g","ä","n","g","i","g">>, <<"r","e","v","e","r","t">>, <<"u","n","d","o">>, <<"r","v">>, <<"z","u","r","ü","c","k","g","e","s","e","t","z","t">>,
               <<"v","a","n","d","a","l","i","s","m","u","s">>, <<"r","e","s","t","o","r","e">>, <<"r","o","l","l","b","a","c","k">> >>
      [] lang = "es" ->
            << <<"r","e","v","e","r","t","i","r">>, <<"d","e","s","h","a","c","e","r">>, <<"r","v">>, <<"v","a","n","d","a","l","i","s","m","o">>, <<"r","e","s","t","a","u","r","a","r">>,
               <<"r","e","v","e","r","t">>, <<"u","n","d","o">>, <<"r","o","l","l","b","a","c","k">> >>
      [] OTHER ->
            << <<"r","e","v","e","r","t">>, <<"u","n","d","o">>, <<"u","n","d","i","d">>, <<"r","v">>, <<"r","e","v","e","r","t","e","d">>,
               <<"r","e","s","t","o","r","e">>, <<"r","e","s","t","o","r","e","d">>, <<"r","o","l","l","b","a","c","k">>, <<"r","o","l","l","e","d"," ","b","a","c","k">>,
               <<"v","a","n","d","a","l","i","s","m">>, <<"v","a","n","d","a","l">> >>

UserAnalyzer_detectRevert(comment, lang) ==
    ContainsAny(ToLower(comment), DetectRevertKeywords(lang))

\* The revisions quickRevertCheck counts: a revert whose comment names the user
MentionedReverts(username, revisions, lang) ==
    SelectSeq(revisions, LAMBDA rev :
        /\ UserAnalyzer_detectRevert(rev.Comment, lang)
        /\ Contains(ToLower(rev.Comment), ToLower(NameChars(username))))

\* lastRevertTime of a non-empty list of counted revisions
LastRevertTime(counted) ==
    CHOOSE t \in {counted[i].Timestamp : i \in DOMAIN counted} :
        \A i \in DOMAIN counted : counted[i].Timestamp <= t

\* fetched is what GetPageRevisions(pageTitle, 20) returned
quickRevertCheck(username, fetched, lang, now) ==
    IF fetched.err THEN [HasReverts |-> FALSE, RevertCount |-> 0, LastRevertAge |-> 0]
    ELSE [HasReverts    |-> Len(MentionedReverts(username, fetched.revisions, lang)) > 0,
          RevertCount   |-> Len(MentionedReverts(username, fetched.revisions, lang)),
          LastRevertAge |->
              IF Len(MentionedReverts(username, fetched.revisions, lang)) > 0
              THEN DaysSince(now, LastRevertTime(MentionedReverts(username, fetched.revisions, lang)))
              ELSE 0]

\* The zero value of models.Contribution
ZeroContribution ==
    [RevID |-> 0, PageTitle |-> "", Namespace |-> 0, Timestamp |-> 0, Comment |-> <<>>,
     SizeDiff |-> 0]

\* basicRevert without its type
BasicRevertUntyped(title, lightAnalysis, now) ==
    [OriginalContrib |-> ZeroContribution,
     RevokedBy       |-> "detected",
     RevokedAt       |-> now - lightAnalysis.LastRevertAge * Day,
     RevertComment   |-> <<"A","p","p","r","o","x","i","m","a","t","e","l","y"," ">> \o Itoa(lightAnalysis.RevertCount) \o <<" ","r","e","v","e","r","t","s"," ","d","e","t","e","c","t","e","d">>,
     PageTitle       |-> title,
     RevertType      |-> ""]

\* basicRevert of analyzeRevokedContributions
BasicRevert(title, lightAnalysis, now) ==
    [OriginalContrib |-> ZeroContribution,
     RevokedBy       |-> "detected",
     RevokedAt       |-> now - lightAnalysis.LastRevertAge * Day,
     RevertComment   |-> <<"A","p","p","r","o","x","i","m","a","t","e","l","y"," ">> \o Itoa(lightAnalysis.RevertCount) \o <<" ","r","e","v","e","r","t","s"," ","d","e","t","e","c","t","e","d">>,
     PageTitle       |-> title,
     RevertType      |-> "detected_light"]

\* The keywords of detectUserRevert
UserRevertKeywords(lang) ==
    CASE lang = "fr" ->
            << <<"r","é","v","o","q","u","é">>, <<"r","é","v","o","c","a","t","i","o","n">>, <<"a","n","n","u","l","é">>, <<"a","n","n","u","l","a","t","i","o","n">>, <<"r","v">>, <<"r","v","t">>,
               <<"r","e","s","t","a","u","r","é">>, <<"r","o","l","l","b","a","c","k">>, <<"r","e","v","e","r","t">>, <<"u","n","d","o">>, <<"v","a","n","d","a","l","i","s","é">>,
               <<"v","a","n","d","a","l","i","s","m","e">> >>
      [] lang = "de" ->
            << <<"r","ü","c","k","g","ä","n","g","i","g">>, <<"r","e","v","e","r","t">>, <<"u","n","d","o">>, <<"r","v">>, <<"z","u","r","ü","c","k","g","e","s","e","t","z","t">>,
               <<"v","a","n","d","a","l","i","s","m","u","s">>, <<"r","e","s","t","o","r","e">>, <<"r","o","l","l","b","a","c","k">> >>
      [] lang = "es" ->
            << <<"r","e","v","e","r","t","i","r">>, <<"d","e","s","h","a","c","e","r">>, <<"r","v">>, <<"v","a","n","d","a","l","i","s","m","o">>, <<"r","e","s","t","a","u","r","a","r">>,
               <<"r","e","v","e","r","t">>, <<"u","n","d","o">>, <<"r","o","l","l","b","a","c","k">> >>
      [] OTHER ->
            << <<"r","e","v","e","r","t">>, <<"u","n","d","o">>, <<"u","n","d","i","d">>, <<"r","v">>, <<"r","e","v","e","r","t","e","d">>,
               <<"r","e","s","t","o","r","e">>, <<"r","e","s","t","o","r","e","d">>, <<"r","o","l","l","b","a","c","k">>, <<"r","o","l","l","e","d"," ","b","a","c","k">> >>

\* A nil *models.WikiRevision
NilRevision == [nil |-> TRUE]

\* An order in which a range over the map userRevisions (revID -> revision)
\* yields the revisions of the set S: by rising or by falling revID
RECURSIVE MapOrder(_, _)
MapOrder(S, rising) ==
    IF S = {} THEN <<>>
    ELSE <<CHOOSE r \in S : \A q \in S : IF rising THEN r.RevID <= q.RevID ELSE r.RevID >= q.RevID>>
         \o MapOrder(S \ {CHOOSE r \in S : \A q \in S :
                            IF rising THEN r.RevID <= q.RevID ELSE r.RevID >= q.RevID}, rising)

\* The first index of a non-empty set of indices
FirstIndex(I) == CHOOSE i \in I : \A j \in I : i <= j

Year == 365 * Day

\* Method 2 of detectUserRevert: the user revisions that come before the
\* revert by less than a year
BeforeWithinYear(revision, userRevisions) ==
    {i \in DOMAIN userRevisions :
        /\ userRevisions[i].Timestamp < revision.Timestamp
        /\ revision.Timestamp - userRevisions[i].Timestamp < Year}

\* closestRev when the loop is over.  closestRev = &userRev takes the address
\* of the loop variable: where each iteration has its own variable it is the
\* closest revision (the first of the iteration among equally close ones),
\* where the loop shares one variable it is the revision iterated last.
ClosestRev(revision, userRevisions, sharedLoopVar) ==
    IF BeforeWithinYear(revision, userRevisions) = {} THEN NilRevision
    ELSE IF sharedLoopVar THEN userRevisions[Len(userRevisions)]
    ELSE userRevisions[FirstIndex({i \in BeforeWithinYear(revision, userRevisions) :
            \A j \in BeforeWithinYear(revision, userRevisions) :
                userRevisions[i].Timestamp >= userRevisions[j].Timestamp})]

\* Method 4: the user revisions at most 24 hours before the revert
BeforeWithinDay(revision, userRevisions) ==
    {i \in DOMAIN userRevisions :
        /\ userRevisions[i].Timestamp < revision.Timestamp
        /\ revision.Timestamp - userRevisions[i].Timestamp <= Day}

\* userRevisions is the map as the sequence in which its ranges yield it
detectUserRevert(revision, userRevisions, lang, sharedLoopVar) ==
    IF ~ContainsAny(ToLower(revision.Comment), UserRevertKeywords(lang)) THEN NilRevision
    ELSE IF \E i \in DOMAIN userRevisions :
                Contains(ToLower(revision.Comment), Itoa(userRevisions[i].RevID))
    THEN userRevisions[FirstIndex({i \in DOMAIN userRevisions :
                Contains(ToLower(revision.Comment), Itoa(userRevisions[i].RevID))})]
    ELSE IF /\ Len(userRevisions) > 0
            /\ Contains(ToLower(revision.Comment), ToLower(NameChars(userRevisions[1].User)))
    THEN ClosestRev(revision, userRevisions, sharedLoopVar)
    ELSE IF /\ revision.ParentID > 0
            /\ \E i \in DOMAIN userRevisions : userRevisions[i].RevID = revision.ParentID
    THEN userRevisions[FirstIndex({i \in DOMAIN userRevisions :
                userRevisions[i].RevID = revision.ParentID})]
    ELSE IF BeforeWithinDay(revision, userRevisions) # {}
    THEN userRevisions[FirstIndex(BeforeWithinDay(revision, userRevisions))]
    ELSE NilRevision

\* The record findUserReverts makes of the revision rev that reverts revertInfo
UserRevert(rev, revertInfo, pageTitle, lang) ==
    [OriginalContrib |-> [RevID     |-> revertInfo.RevID,
                          PageTitle |-> pageTitle,
                          Namespace |-> 0,
                          Timestamp |-> revertInfo.Timestamp,
                          Comment   |-> revertInfo.Comment,
                          SizeDiff  |-> revertInfo.Size],
     RevokedBy       |-> rev.User,
     RevokedAt       |-> rev.Timestamp,
     RevertComment   |-> rev.Comment,
     PageTitle       |-> pageTitle,
     RevertType      |-> classifyRevertType(rev.Comment, lang)]

\* The revisions of the history that revert a revision of the user
RevertingRevisions(username, pageHistory, userRevisions, lang, sharedLoopVar) ==
    SelectSeq(pageHistory, LAMBDA rev :
        /\ rev.User # username
        /\ detectUserRevert(rev, userRevisions, lang, sharedLoopVar) # NilRevision)

UserRevertsOf(reverting, userRevisions, pageTitle, lang, sharedLoopVar) ==
    [k \in DOMAIN reverting |->
        UserRevert(reverting[k],
                   detectUserRevert(reverting[k], userRevisions, lang, sharedLoopVar),
                   pageTitle, lang)]

findUserReverts(username, pageHistory, pageTitle, lang, rising, sharedLoopVar) ==
    UserRevertsOf(
        RevertingRevisions(username, pageHistory,
            MapOrder({pageHistory[i] : i \in {j \in DOMAIN pageHistory : pageHistory[j].User = username}}, rising),
            lang, sharedLoopVar),
        MapOrder({pageHistory[i] : i \in {j \in DOMAIN pageHistory : pageHistory[j].User = username}}, rising),
        pageTitle, lang, sharedLoopVar)

\* deepRevertAnalysis as analyzeRevokedContributions uses it: nothing is
\* appended when the history cannot be fetched
deepRevertAnalysis(username, fetched, pageTitle, lang, rising, sharedLoopVar) ==
    IF fetched.err THEN <<>>
    ELSE findUserReverts(username, fetched.revisions, pageTitle, lang, rising, sharedLoopVar)

\* GetDefaultRevokedAnalysisConfig, with or without the deep analysis
RevokedAnalysisConfig(deep) ==
    [MaxPagesToAnalyze |-> 10, MaxRevisionsPerPage |-> 50, EnableDeepAnalysis |-> deep,
     RecentDaysOnly |-> 90]

\* The contributions analyzeRevokedContributions keeps
RecentOnly(contribs, config, now) ==
    IF config.RecentDaysOnly > 0
    THEN SelectSeq(contribs, LAMBDA c : c.Timestamp > now - config.RecentDaysOnly * Day)
    ELSE contribs

\* The titles of the pages the loop analyses, as it meets them
PagesToAnalyze(sortedContribs, config) ==
    SubSeq([k \in DOMAIN SelectSeq([i \in DOMAIN sortedContribs |-> i], LAMBDA i :
                \A j \in 1..(i - 1) : sortedContribs[j].Title # sortedContribs[i].Title) |->
            sortedContribs[SelectSeq([i \in DOMAIN sortedContribs |-> i], LAMBDA i :
                \A j \in 1..(i - 1) : sortedContribs[j].Title # sortedContribs[i].Title)[k]].Title],
           1,
           Min(config.MaxPagesToAnalyze,
               Cardinality({sortedContribs[i].Title : i \in DOMAIN sortedContribs})))

\* What one turn of the loop appends for a page; fetched is the history the
\* client returns for it
PageRevocations(username, title, fetched, config, lang, now, rising, sharedLoopVar) ==
    IF ~quickRevertCheck(username, fetched, lang, now).HasReverts THEN <<>>
    ELSE IF config.EnableDeepAnalysis
    THEN deepRevertAnalysis(username, fetched, title, lang, rising, sharedLoopVar)
    ELSE <<BasicRevert(title, quickRevertCheck(username, fetched, lang, now), now)>>

RECURSIVE Flatten(_)
Flatten(lists) == IF lists = <<>> THEN <<>> ELSE Head(lists) \o Flatten(Tail(lists))

\* histories[title] is what the client returns for the page
analyzeRevokedContributions(username, contribs, config, histories, lang, now, rising, sharedLoopVar) ==
    detectDirectRevocations(contribs, lang)
    \o Flatten([k \in DOMAIN PagesToAnalyze(RecentOnly(contribs, config, now), config) |->
           PageRevocations(username,
                           PagesToAnalyze(RecentOnly(contribs, config, now), config)[k],
                           histories[PagesToAnalyze(RecentOnly(contribs, config, now), config)[k]],
                           config, lang, now, rising, sharedLoopVar)])

\* revokedDetails[revID]: the last record of the list with this revision id
RevokedDetails(revokedContribs, revID) ==
    revokedContribs[CHOOSE k \in DOMAIN revokedContribs :
        /\ revokedContribs[k].OriginalContrib.RevID = revID
        /\ \A j \in DOMAIN revokedContribs :
              revokedContribs[j].OriginalContrib.RevID = revID => j <= k]

\* The fields of a contribution no revocation is known of
Unmarked == [IsRevoked |-> FALSE, RevokedBy |-> "", RevokedAt |-> 0, RevertReason |-> <<>>]

\* The fields markRevokedContributions sets from the details
MarkedBy(details) ==
    [IsRevoked    |-> TRUE,
     RevokedBy    |-> details.RevokedBy,
     RevokedAt    |-> details.RevokedAt,
     RevertReason |-> details.RevertComment]

markRevokedContributions(recent, revokedContribs) ==
    [i \in DOMAIN recent |->
        IF \E k \in DOMAIN revokedContribs :
              revokedContribs[k].OriginalContrib.RevID = recent[i].RevID
        THEN MarkedBy(RevokedDetails(revokedContribs, recent[i].RevID)) @@ recent[i]
        ELSE Unmarked @@ recent[i]]

-----------------------------------------------------------------------------
(* The resolver specification: GetUserProfile on a user whose contributions  *)
(* the API returned, with the histories of the pages as the client returns   *)
(* them.                                                                      *)

\* The user GetUserProfile is called on
ProfiledUser == "U"

\* The time of the analysis, after the last revision of the histories
ResolveTime == Now + SecondsPerHour

CommentRvVandalU == <<"r","v"," ","v","a","n","d","a","l","i","s","m"," ","b","y"," ","U">>

CommentUndid99 == <<"U","n","d","i","d"," ","r","e","v","i","s","i","o","n"," ","9","9"," ","b","y"," ","U">>

CommentBareRv == <<"r","v">>

\* What happened on a page after the contributions: the comments of the
\* revisions other users made, newest first
Later(comments) == [failed |-> FALSE, comments |-> comments]

\* A page whose history cannot be fetched
Unfetched == [failed |-> TRUE, comments |-> <<>>]

\* The histories of the two pages: nothing after the contributions, a revert
\* on each page, reverts of which one does not name the user, and a page whose
\* history cannot be fetched
HistoryCases ==
    { [P1 |-> Later(<<>>),                                P2 |-> Later(<<>>)],
      [P1 |-> Later(<<CommentRvVandalU>>),                P2 |-> Later(<<CommentUndid99>>)],
      [P1 |-> Later(<<CommentBareRv, CommentRvVandalU>>), P2 |-> Unfetched],
      [P1 |-> Later(<<CommentRvVandalU, CommentBareRv>>), P2 |-> Later(<<CommentRvVandalU>>)],
      [P1 |-> Unfetched, P2 |-> Later(<<CommentUndid99, CommentRvVandalU>>)] }

PageNumber(title) == IF title = "P1" THEN 1 ELSE 2

\* The revisions of a page, newest first, without their parents: the later
\* revisions of the user "X", a minute apart, above the contributions made on
\* the page
RevisionsOf(title, contribs, later) ==
    [k \in DOMAIN later |->
        [RevID     |-> 200 + 10 * PageNumber(title) + (Len(later) - k),
         User      |-> "X",
         Timestamp |-> Now + (Len(later) - k + 1) * SecondsPerMinute,
         Comment   |-> later[k],
         Size      |-> 1000]]
    \o [k \in DOMAIN SelectSeq(contribs, LAMBDA c : c.Title = title) |->
        [RevID     |-> SelectSeq(contribs, LAMBDA c : c.Title = title)[k].RevID,
         User      |-> SelectSeq(contribs, LAMBDA c : c.Title = title)[k].User,
         Timestamp |-> SelectSeq(contribs, LAMBDA c : c.Title = title)[k].Timestamp,
         Comment   |-> SelectSeq(contribs, LAMBDA c : c.Title = title)[k].Comment,
         Size      |-> 1000 + SelectSeq(contribs, LAMBDA c : c.Title = title)[k].SizeDiff]]

\* The parent of a revision is the revision before it
WithParents(revisions) ==
    [i \in DOMAIN revisions |->
        [ParentID |-> IF i < Len(revisions) THEN revisions[i + 1].RevID ELSE 0] @@ revisions[i]]

\* What GetPageRevisions returns for the page
FetchedHistory(title, contribs, later) ==
    IF later.failed THEN [err |-> TRUE]
    ELSE [err |-> FALSE, revisions |-> WithParents(RevisionsOf(title, contribs, later.comments))]

\* GetUserProfile from its conversion of the contributions to the marks of the
\* revoked ones.  The deep analysis ranges over a map, in one of two orders,
\* and takes the address of a loop variable, shared by the iterations or not.
AnalyzeRevokedContributions ==
    /\ pc = "input"
    /\ pc' = "done"
    /\ \A i \in DOMAIN contributions : contributions[i].User = ProfiledUser
    /\ \E later \in HistoryCases, deep \in BOOLEAN, rising \in BOOLEAN, sharedLoopVar \in BOOLEAN :
          /\ deep \/ (rising /\ ~sharedLoopVar)
          /\ revocations' =
                analyzeRevokedContributions(ProfiledUser, contributions,
                    RevokedAnalysisConfig(deep),
                    [title \in Pages |-> FetchedHistory(title, contributions, later[title])],
                    language, ResolveTime, rising, sharedLoopVar)
    /\ recentContribs' = markRevokedContributions(convertContributions(contributions), revocations')
    /\ UNCHANGED <<language, contributions, editWarVars, supportVars, scoreVars, runVars>>

InitResolver == pc = "input" /\ Idle

NextResolver == NewUserAnalyzer \/ FetchContribution \/ AnalyzeRevokedContributions

SpecResolver == InitResolver /\ [][NextResolver]_vars

-----------------------------------------------------------------------------
(* The comment specification: the analyzers are made on a client of some     *)
(* language, and the three detectRevert functions classify one comment.      *)

\* The languages of the keyword tables and one language without a table
ClientLanguages == {"en", "fr", "de", "es", "it"}

\* NewPageAnalyzer, NewContributionAnalyzer and NewUserAnalyzer on a client of
\* another language
NewAnalyzers ==
    /\ pc = "input"
    /\ \E lang \in ClientLanguages \ {language} : language' = lang
    /\ UNCHANGED <<pc, contributions, revocations, recentContribs, editWarVars, supportVars,
                   scoreVars, runVars>>

CommentVandalismCleanup == <<"V","a","n","d","a","l","i","s","m"," ","c","l","e","a","n","u","p">>

CommentAnnulation == <<"A","n","n","u","l","a","t","i","o","n"," ","d","e","s"," ","m","o","d","i","f","i","c","a","t","i","o","n","s"," ","d","e"," ","U">>

\* The comments classified: every keyword of every table by itself, and some
\* sentences.
RevertComments ==
    UNION {Range(DetectRevertKeywords(lang)) : lang \in ClientLanguages}
        \cup Range(PageRevertKeywords) \cup Range(ContributionRevertKeywords)
        \cup {<<>>, CommentPOV, CommentRv, CommentFix, CommentUndid99,
              CommentVandalismCleanup, CommentAnnulation}

\* The is_revert value of one comment as each analyzer computes it
DetectRevert ==
    /\ pc = "input"
    /\ pc' = "done"
    /\ \E comment \in RevertComments :
          scored' = <<[kind    |-> "comment",
                       Comment |-> comment,
                       page    |-> PageAnalyzer_detectRevert(comment),
                       edit    |-> ContributionAnalyzer_detectRevert(comment),
                       user    |-> UserAnalyzer_detectRevert(comment, language)]>>
    /\ UNCHANGED <<editWarVars, supportVars, revokedVars, runVars>>

InitComments == pc = "input" /\ Idle

NextComments == NewAnalyzers \/ DetectRevert

SpecComments == InitComments /\ [][NextComments]_vars

-----------------------------------------------------------------------------
(* PageAnalyzer.convertRevisions, and the revision specification: the        *)
(* revisions of a page are fetched, newest first as GetPageRevisions asks    *)
(* for them or oldest first, and converted.                                  *)

\* The size of the revision listed before the i-th one; lastSize starts at 0
LastSize(wikiRevisions, i) == IF i = 1 THEN 0 ELSE wikiRevisions[i - 1].Size

\* if i < len(wikiRevisions)-1 { sizeDiff = wr.Size - lastSize }, i counted
\* from 0
convertRevisions(wikiRevisions) ==
    [i \in DOMAIN wikiRevisions |->
        [RevID     |-> wikiRevisions[i].RevID,
         ParentID  |-> wikiRevisions[i].ParentID,
         Username  |-> wikiRevisions[i].User,
         Timestamp |-> ParseTime(wikiRevisions[i].Timestamp),
         Comment   |-> wikiRevisions[i].Comment,
         SizeDiff  |-> IF i - 1 < Len(wikiRevisions) - 1
                       THEN wikiRevisions[i].Size - LastSize(wikiRevisions, i)
                       ELSE 0,
         NewSize   |-> wikiRevisions[i].Size,
         IsRevert  |-> PageAnalyzer_detectRevert(wikiRevisions[i].Comment)]]

MaxWikiRevisions == 4

\* The sizes of a page after an edit
PageSizes == {900, 1000, 1200}

\* The revision with the id: each is the child of the one with the id before
\* it, a minute older
WikiRevisionOf(revID, size) ==
    [RevID     |-> revID,
     ParentID  |-> revID - 1,
     User      |-> "A",
     Timestamp |-> Now + SecondsPerMinute * (revID - 100),
     Size      |-> size,
     Comment   |-> CommentPOV]

\* The next revision of the list: the parent of the one before it in a list
\* that is newest first, its child in a list that is oldest first
FetchWikiRevision ==
    /\ pc = "input"
    /\ Len(pageRevisions) < MaxWikiRevisions
    /\ \E size \in PageSizes, step \in {-1, 1} :
          /\ Len(pageRevisions) >= 2 =>
                 step = pageRevisions[2].RevID - pageRevisions[1].RevID
          /\ pageRevisions' = Append(pageRevisions,
                 WikiRevisionOf(IF pageRevisions = <<>> THEN 100
                                ELSE pageRevisions[Len(pageRevisions)].RevID + step,
                                size))
    /\ UNCHANGED <<pc, detailedHistory, editWarPeriods, recentRevisions, supportVars, scoreVars,
                   revokedVars, runVars>>

\* GetPageProfile: profile.RecentRevisions = pa.convertRevisions(revisions)
ConvertRevisions ==
    /\ pc = "input"
    /\ pc' = "done"
    /\ recentRevisions' = convertRevisions(pageRevisions)
    /\ UNCHANGED <<detailedHistory, editWarPeriods, pageRevisions, supportVars, scoreVars,
                   revokedVars, runVars>>

InitConvert == pc = "input" /\ Idle

NextConvert == FetchWikiRevision \/ ConvertRevisions

SpecConvert == InitConvert /\ [][NextConvert]_vars

-----------------------------------------------------------------------------
(* Claims about the scores *)

\* An entity of this kind has been scored
Scored(k) == scored # <<>> /\ scored[1].kind = k

\* The contributors of the scored page, in the order of the profile
PageContributors == IF Scored("page") THEN scored[1].Contributors ELSE <<>>

InRange(score) == 0 <= score /\ score <= 100

\* C1 as stated: every score stored on a scored entity (the edit, the user
\* profile, the page, the cross-page run and each contributor of the page) is
\* between 0 and 100, a contributor whose analysis failed included.
C1_EveryScoreBetween0And100 ==
    /\ scored # <<>> => InRange(scored[1].SuspicionScore)
    /\ \A i \in DOMAIN PageContributors : InRange(PageContributors[i].SuspicionScore)

\* C1 amended: the score of the edit, the user profile, the page and the
\* cross-page run is between 0 and 100, and so is the score of every
\* contributor of the page whose analysis did not fail; a contributor whose
\* analysis failed carries the score -1 next to the analysis error.
C1_ScoreBetween0And100UnlessAnalysisFailed ==
    /\ scored # <<>> => InRange(scored[1].SuspicionScore)
    /\ Scored("edit") => InRange(scored[1].Author.SuspicionScore)
    /\ \A i \in DOMAIN PageContributors :
          IF PageContributors[i].AnalysisError # ""
          THEN PageContributors[i].SuspicionScore = -1
          ELSE InRange(PageContributors[i].SuspicionScore)

\* A page is scored on which the analysis of one contributor failed and that
\* of another added up to more than 100.
C1_Witness ==
    /\ Scored("page")
    /\ InRange(scored[1].SuspicionScore)
    /\ \E i, j \in DOMAIN PageContributors :
          /\ PageContributors[i].AnalysisError = "Analysis failed"
          /\ PageContributors[i].SuspicionScore = -1
          /\ PageContributors[j].AnalysisError = ""
          /\ PageContributors[j].SuspicionScore = 100
          /\ Len(PageContributors[j].SuspicionFlags) > 5

\* The rules of the three scoring functions as the specification tabulates
\* them: the name of the rule, its weight, whether its predicate holds.
Rule(name, w, holds) == [flag |-> name, weight |-> w, fired |-> holds]

EditRules(p) ==
    << Rule("REVERT_EDIT", 15, ContainsAny(ToLower(p.Comment), ContributionRevertKeywords)),
       Rule("RAPID_EDITING", 20, p.Author.RecentActivity.EditsLast24h > 50),
       Rule("ANONYMOUS_EDIT", 5, p.Author.IsAnonymous),
       Rule("NEW_ACCOUNT", 15, /\ p.Author.RegistrationDate # NoDate
                               /\ Now - p.Author.RegistrationDate < 7 * Day),
       Rule("POTENTIAL_BIAS", 10, 10 * p.ContentAnalysis.LanguageAnalysis.BiasScore.num
                                    > 3 * p.ContentAnalysis.LanguageAnalysis.BiasScore.den),
       Rule("LARGE_ADDITION", 10, p.ContentAnalysis.TextChanges.CharsAdded > 5000),
       Rule("LARGE_REMOVAL", 15, p.ContentAnalysis.TextChanges.CharsRemoved > 2000),
       Rule("BLOCKED_USER", 25, p.Author.IsBlocked) >>

PageRules(p) ==
    << Rule("PAGE_HIGH_CONFLICT", 25,
            10 * p.ConflictStats.ControversyScore.num
               > 3 * p.ConflictStats.ControversyScore.den),
       Rule("PAGE_FEW_CONTRIBUTORS", 20, Len(p.Contributors) < 5 /\ p.TotalRevisions > 100),
       Rule("PAGE_RECENT_INTENSIVE_ACTIVITY", 15, p.QualityMetrics.RecentActivityBurst),
       Rule("PAGE_ANONYMOUS_HEAVY_EDITING", 15,
            10 * p.QualityMetrics.AnonymousEditRatio.num
               > 5 * p.QualityMetrics.AnonymousEditRatio.den),
       Rule("PAGE_NEW_EDITOR_DOMINANCE", 20,
            /\ Len(p.Contributors) > 0
            /\ Now - p.Contributors[1].FirstEdit < 30 * Day
            /\ 2 * p.Contributors[1].EditCount > p.TotalRevisions),
       Rule("PAGE_LOW_DIVERSITY", 10,
            10 * p.QualityMetrics.ContributorDiversity.num
               < 3 * p.QualityMetrics.ContributorDiversity.den),
       Rule("PAGE_RECENT_CONFLICTS", 15, p.ConflictStats.RecentConflicts > 5) >>

\* The weights of the rules of the user profile, by flag
UserRuleWeights ==
    { <<"RECENT_ACCOUNT_HIGH_ACTIVITY", 20>>, <<"USER_BLOCKED", 30>>,
      <<"SINGLE_PAGE_FOCUS", 15>>, <<"NO_SPECIAL_GROUPS", 10>>,
      <<"SENSITIVE_NAMESPACE_FOCUS", 15>>, <<"FREQUENT_EMPTY_COMMENTS", 10>>,
      <<"VERY_HIGH_REVOKED_RATIO", 30>>, <<"HIGH_REVOKED_RATIO", 20>>,
      <<"MODERATE_REVOKED_RATIO", 10>>, <<"MANY_REVOKED_CONTRIBUTIONS", 15>>,
      <<"SOME_REVOKED_CONTRIBUTIONS", 10>>, <<"VANDALISM_PATTERN", 25>>,
      <<"SOME_VANDALISM_REVERTS", 15>>, <<"NEW_ACCOUNT_MANY_REVERTS", 20>> }
        \cup { <<"CONFLICT_WITH_SPECIFIC_USER_" \o u, 15>> : u \in Reverters }

\* The flags analyzeContributorPageBehavior and the anonymous branch add
PageActivityFlags ==
    { "HIGH_PAGE_ACTIVITY", "NEW_ACCOUNT_HIGH_PAGE_ACTIVITY", "VERY_RECENT_ACTIVITY",
      "LARGE_CONTENT_CHANGES", "ANONYMOUS_USER" }

\* The pairs of flag and weight of a rule table
WeightsOf(rules) == { <<rules[i].flag, rules[i].weight>> : i \in DOMAIN rules }

Fired(rule) == rule.fired

\* The names of the rules whose predicate holds, in the order of the table
FiredFlags(rules) ==
    [i \in DOMAIN SelectSeq(rules, Fired) |-> SelectSeq(rules, Fired)[i].flag]

HasWeight(flag, weights) == \E w \in weights : w[1] = flag

WeightOf(flag, weights) == (CHOOSE w \in weights : w[1] = flag)[2]

\* The sum of the weights of the first n flags; a flag without a weight adds 0
RECURSIVE SumWeights(_, _, _)
SumWeights(flags, n, weights) ==
    IF n = 0 THEN 0
    ELSE SumWeights(flags, n - 1, weights)
            + (IF HasWeight(flags[n], weights) THEN WeightOf(flags[n], weights) ELSE 0)

\* Every flag has a weight and the score is the limited sum of these weights
ScoreIsSumOfFlags(entity, weights) ==
    /\ \A i \in DOMAIN entity.SuspicionFlags : HasWeight(entity.SuspicionFlags[i], weights)
    /\ entity.SuspicionScore
          = Min(100, SumWeights(entity.SuspicionFlags, Len(entity.SuspicionFlags), weights))

C8_RevokedRatioBands ==
    Scored("user") =>
        /\ "VERY_HIGH_REVOKED_RATIO" \in Range(scored[1].SuspicionFlags)
              <=> /\ Len(scored[1].RecentContribs) > 0
                  /\ 10 * scored[1].RevokedCount > 5 * Len(scored[1].RecentContribs)
        /\ "HIGH_REVOKED_RATIO" \in Range(scored[1].SuspicionFlags)
              <=> /\ Len(scored[1].RecentContribs) > 0
                  /\ 10 * scored[1].RevokedCount > 3 * Len(scored[1].RecentContribs)
                  /\ 10 * scored[1].RevokedCount <= 5 * Len(scored[1].RecentContribs)
        /\ "MODERATE_REVOKED_RATIO" \in Range(scored[1].SuspicionFlags)
              <=> /\ Len(scored[1].RecentContribs) > 0
                  /\ 10 * scored[1].RevokedCount > 2 * Len(scored[1].RecentContribs)
                  /\ 10 * scored[1].RevokedCount <= 3 * Len(scored[1].RecentContribs)
        /\ Cardinality({i \in DOMAIN scored[1].SuspicionFlags :
                           scored[1].SuspicionFlags[i]
                              \in {"VERY_HIGH_REVOKED_RATIO", "HIGH_REVOKED_RATIO",
                                   "MODERATE_REVOKED_RATIO"}}) <= 1

\* 31 revoked contributions out of 100: HIGH_REVOKED_RATIO and not
\* VERY_HIGH_REVOKED_RATIO
C8_Witness ==
    /\ Scored("user")
    /\ scored[1].RevokedCount = 31
    /\ Len(scored[1].RecentContribs) = 100
    /\ "HIGH_REVOKED_RATIO" \in Range(scored[1].SuspicionFlags)
    /\ "VERY_HIGH_REVOKED_RATIO" \notin Range(scored[1].SuspicionFlags)

-----------------------------------------------------------------------------
(* Claims about the revocations *)

\* The tags of the contribution match the revoked tags of the language
HasRevokedTag(contrib) ==
    \E i \in DOMAIN contrib.Tags :
        \E k \in DOMAIN RevokedTags(language) :
            Contains(ToLower(contrib.Tags[i]), RevokedTags(language)[k])

\* The records detectDirectRevocations returned for a contribution
RecordsOf(contrib) ==
    {k \in DOMAIN revocations : revocations[k].OriginalContrib.RevID = contrib.RevID}

\* C10: once detectDirectRevocations has run, every contribution whose tags
\* match the revoked tags has exactly one record, the one made from the tags:
\* revoked by "system_detected" at the time of the contribution, with the
\* comment "Detected from revision tags" and the type its tags give, whatever
\* its comment and whether or not the next contribution looks like its undo.
C10_TagRecordTakesPrecedence ==
    pc = "done" =>
        \A i \in DOMAIN contributions :
            HasRevokedTag(contributions[i]) =>
                /\ Cardinality(RecordsOf(contributions[i])) = 1
                /\ \A k \in RecordsOf(contributions[i]) :
                      /\ revocations[k].RevokedBy = "system_detected"
                      /\ revocations[k].RevokedAt = contributions[i].Timestamp
                      /\ revocations[k].RevertComment
                            = <<"D","e","t","e","c","t","e","d"," ","f","r","o","m"," ",
                                "r","e","v","i","s","i","o","n"," ","t","a","g","s">>
                      /\ revocations[k].RevertType
                            = classifyRevertTypeFromTags(contributions[i].Tags)

\* A contribution with a revoked tag is followed by one of another user on the
\* same page that takes back about as many bytes, with a comment that tells
\* of a revert; the detector has run, and the only record of the contribution
\* is the one revoked by "system_detected".
C10_Witness ==
    /\ pc = "done"
    /\ Len(contributions) >= 2
    /\ HasRevokedTag(contributions[1])
    /\ contributions[1].Title = contributions[2].Title
    /\ contributions[1].User # contributions[2].User
    /\ contributions[1].SizeDiff = 120
    /\ contributions[2].SizeDiff = -150
    /\ contributions[2].Comment = CommentRv
    /\ ~HasRevokedTag(contributions[2])
    /\ Len(revocations) = 1
    /\ revocations[1].OriginalContrib.RevID = contributions[1].RevID
    /\ revocations[1].RevokedBy = "system_detected"

-----------------------------------------------------------------------------
(* Claims about the runs *)

\* C9: two runs of the analysis on the same dataset give the same result: the
\* same common contributors in the same order, the same pairs in the same
\* order with the same users, metrics, pages and levels, the same score and
\* the same flags, whatever the order in which the maps are walked.
C9_RunsAreIdentical ==
    \A i, j \in DOMAIN runs : runs[i] = runs[j]

-----------------------------------------------------------------------------
(* Claims about the contributors of a page whose analysis fails *)

\* The contributor of the scored page is one GetUserProfile is called for
AnalysedInDetail(i) == i <= DetailedLimit /\ ~PageContributors[i].IsAnonymous

\* What GetUserProfile returned for the contributor
UserAnalysisOf(i) == scored[1].outcome[PageContributors[i].Username]

\* C14: when the detailed analysis of one of the first 10 contributors of a
\* page, anonymous ones aside, fails, the contributor gets the score -1 and
\* an analysis error that is not empty, its flags stay empty, the other
\* contributors are analysed all the same and GetPageProfile returns the
\* profile.
C14_FailedContributorIsMarked ==
    Scored("page") =>
        /\ InRange(scored[1].SuspicionScore)
        /\ \A i \in DOMAIN PageContributors :
              AnalysedInDetail(i) =>
                 IF UserAnalysisOf(i).err
                 THEN /\ PageContributors[i].SuspicionScore = -1
                      /\ PageContributors[i].AnalysisError # ""
                      /\ PageContributors[i].SuspicionFlags = <<>>
                 ELSE /\ PageContributors[i].SuspicionScore = UserAnalysisOf(i).profile.SuspicionScore
                      /\ PageContributors[i].AnalysisError = ""
                      /\ Len(PageContributors[i].SuspicionFlags)
                            >= Len(UserAnalysisOf(i).profile.SuspicionFlags)
                      /\ SubSeq(PageContributors[i].SuspicionFlags, 1,
                                Len(UserAnalysisOf(i).profile.SuspicionFlags))
                            = UserAnalysisOf(i).profile.SuspicionFlags

\* The analysis of a contributor failed, that of a contributor after it in
\* the list did not.
C14_Witness ==
    /\ Scored("page")
    /\ \E i, j \in DOMAIN PageContributors :
          /\ i < j
          /\ AnalysedInDetail(i) /\ UserAnalysisOf(i).err
          /\ AnalysedInDetail(j) /\ ~UserAnalysisOf(j).err
          /\ Len(PageContributors[j].SuspicionFlags) > 0

-----------------------------------------------------------------------------
(* Claims about the coordination score of a run *)

\* The patterns of the scored run
ScoredPatterns == scored[1].CoordinatedPatterns

\* C20: the coordination score is min(100, 10 * pairs + 15 * tag-team
\* patterns + 20 * coordinated reversions + 25 * support networks), so within
\* 0..100; the last three lists being always empty it is min(100, 10 * pairs),
\* and the run has the flag HIGH_COORDINATION_SCORE exactly when it reports
\* 6 pairs or more.
C20_CoordinationScore ==
    Scored("crosspage") =>
        /\ ScoredPatterns.CoordinationScore
              = Min(100, 10 * Len(ScoredPatterns.MutualSupportPairs)
                         + 15 * Len(ScoredPatterns.TagTeamEditing)
                         + 20 * Len(ScoredPatterns.CoordinatedReversions)
                         + 25 * Len(ScoredPatterns.SupportNetworks))
        /\ InRange(ScoredPatterns.CoordinationScore)
        /\ ScoredPatterns.TagTeamEditing = <<>>
        /\ ScoredPatterns.CoordinatedReversions = <<>>
        /\ ScoredPatterns.SupportNetworks = <<>>
        /\ ScoredPatterns.CoordinationScore = Min(100, 10 * Len(ScoredPatterns.MutualSupportPairs))
        /\ (\E k \in DOMAIN scored[1].SuspicionFlags :
               scored[1].SuspicionFlags[k] = "HIGH_COORDINATION_SCORE")
              <=> Len(ScoredPatterns.MutualSupportPairs) >= 6

\* A run with more pairs than the score counts: 11 pairs, score 100.
C20_Witness ==
    /\ Scored("crosspage")
    /\ Len(ScoredPatterns.MutualSupportPairs) = 11
    /\ ScoredPatterns.CoordinationScore = 100

-----------------------------------------------------------------------------
(* Claims about the revocations found in the page histories *)

\* The revert types the specification lists
RevertTypes ==
    {"vandalism_revert", "rollback", "undo", "restore", "manual_revert", "generic_revert"}

\* C11 as stated: every record analyzeRevokedContributions returns, with or
\* without the deep analysis, has a revert type among vandalism_revert,
\* rollback, undo, restore, manual_revert and generic_revert.
C11_RevertTypeInFixedSet ==
    pc = "done" =>
        \A k \in DOMAIN revocations : revocations[k].RevertType \in RevertTypes

\* The record is the one the light probe makes of a page
IsLightRecord(r) == r.RevokedBy = "detected" /\ r.OriginalContrib = ZeroContribution

\* The record is the one made of the tags of contributions[i], none of which
\* names a kind of revert
IsUntypedTagRecord(r, i) ==
    /\ r.RevokedBy = "system_detected"
    /\ r.OriginalContrib.RevID = contributions[i].RevID
    /\ isRevokedByTags(contributions[i].Tags, language)
    /\ \A t \in DOMAIN contributions[i].Tags : TagRevertType(ToLower(contributions[i].Tags[t])) = ""

\* C11 amended: every record analyzeRevokedContributions returns, with or
\* without the deep analysis, has a revert type among the six listed, except
\* that the record of the light probe has the type detected_light and the
\* record made of revert tags that name no kind of revert has the type
\* system_detected; no other record has one of these two types.
C11_RevertTypeInFixedSetOrLightOrSystem ==
    pc = "done" =>
        \A k \in DOMAIN revocations :
            /\ revocations[k].RevertType \in RevertTypes \cup {"detected_light", "system_detected"}
            /\ revocations[k].RevertType = "detected_light" <=> IsLightRecord(revocations[k])
            /\ revocations[k].RevertType = "system_detected" <=>
                  \E i \in DOMAIN contributions : IsUntypedTagRecord(revocations[k], i)

\* The resolver returned a record of each kind: one of the light probe, one
\* of tags that name no kind of revert, and one of a listed type.
C11_Witness ==
    /\ pc = "done"
    /\ \E k \in DOMAIN revocations : revocations[k].RevertType = "detected_light"
    /\ \E k \in DOMAIN revocations : revocations[k].RevertType = "system_detected"
    /\ \E k \in DOMAIN revocations : revocations[k].RevertType \in RevertTypes

\* The first record of the list with the revision id
FirstDetected(revID) ==
    revocations[CHOOSE k \in DOMAIN revocations :
        /\ revocations[k].OriginalContrib.RevID = revID
        /\ \A j \in 1..(k - 1) : revocations[j].OriginalContrib.RevID # revID]

\* C12 as stated: the list analyzeRevokedContributions returns has at most
\* one record per original revision id, and markRevokedContributions copies
\* revoked_by and revoked_at of the first record detected for the revision
\* onto the contribution.
C12_OneRecordPerRevisionFirstDetectedWins ==
    pc = "done" =>
        /\ \A j, k \in DOMAIN revocations :
              revocations[j].OriginalContrib.RevID = revocations[k].OriginalContrib.RevID => j = k
        /\ \A i \in DOMAIN recentContribs :
              recentContribs[i].IsRevoked =>
                 /\ recentContribs[i].RevokedBy = FirstDetected(recentContribs[i].RevID).RevokedBy
                 /\ recentContribs[i].RevokedAt = FirstDetected(recentContribs[i].RevID).RevokedAt

-----------------------------------------------------------------------------
(* Claims about AnalyzePages step by step *)

\* The pages whose profile was made, by their number
AnalyzedPages == {i \in DOMAIN analysis.outcomes : ~analysis.outcomes[i].err}

\* The users among the contributors of the pages whose profile was made
UsersOfAnalyzedPages ==
    UNION {{analysis.outcomes[i].Contributors[k].Username :
               k \in DOMAIN analysis.outcomes[i].Contributors} : i \in AnalyzedPages}

RECURSIVE RevisionsOfAnalyzedPages(_)
RevisionsOfAnalyzedPages(n) ==
    IF n = 0 THEN 0
    ELSE RevisionsOfAnalyzedPages(n - 1)
            + (IF analysis.outcomes[n].err THEN 0 ELSE Len(analysis.outcomes[n].RecentRevisions))

\* C13: a page whose profile cannot be made is skipped and the run goes on:
\* the page brings no contributor and no edit event into the accumulators,
\* the pages after it are analysed, AnalyzePages returns a report and no
\* error even if every page fails, and TotalPages and TotalContributors count
\* the pages analysed and their contributors only.
C13_FailedPageIsSkipped ==
    /\ \A i \in DOMAIN analysis.outcomes :
          /\ analysis.outcomes[i].err => PageNames[i] \notin analysis.pageProfiles
          /\ ~analysis.outcomes[i].err => PageNames[i] \in analysis.pageProfiles
    /\ {c.Username : c \in analysis.allContributors} = UsersOfAnalyzedPages
    /\ \A c \in analysis.allContributors :
          Range(c.PagesEdited) \subseteq {PageNames[i] : i \in AnalyzedPages}
    /\ Len(analysis.allRevisions) = RevisionsOfAnalyzedPages(Len(analysis.outcomes))
    /\ \A k \in DOMAIN analysis.allRevisions :
          analysis.allRevisions[k].PageTitle \in {PageNames[i] : i \in AnalyzedPages}
    /\ analysis.phase = "done" =>
          /\ Len(analysis.outcomes) = Len(PageNames)
          /\ Len(analysis.report) = 1
          /\ ~analysis.report[1].err
          /\ analysis.report[1].TotalPages = Cardinality(AnalyzedPages)
          /\ analysis.report[1].TotalContributors = Cardinality(UsersOfAnalyzedPages)

\* The first page failed, the second was analysed and brought contributors
\* and edit events, and the report is there.
C13_Witness ==
    /\ analysis.phase = "done"
    /\ analysis.outcomes[1].err
    /\ ~analysis.outcomes[2].err
    /\ analysis.report[1].TotalPages = 1
    /\ analysis.report[1].TotalContributors >= 3
    /\ Len(analysis.allRevisions) >= 2

\* The pairs of the report
ReportedPairs == analysis.report[1].CoordinatedPatterns.MutualSupportPairs

\* The points the specification gives the four metrics of m
BandPoints(m) ==
      (IF 10 * m.MutualSupportRatio.num > 7 * m.MutualSupportRatio.den THEN 3
       ELSE IF 10 * m.MutualSupportRatio.num > 5 * m.MutualSupportRatio.den THEN 2
       ELSE IF 10 * m.MutualSupportRatio.num > 3 * m.MutualSupportRatio.den THEN 1 ELSE 0)
    + (IF m.AverageReactionTime < 10 THEN 3
       ELSE IF m.AverageReactionTime < 30 THEN 2
       ELSE IF m.AverageReactionTime < 60 THEN 1 ELSE 0)
    + (IF 10 * m.ReciprocityScore.num > 8 * m.ReciprocityScore.den THEN 2
       ELSE IF 10 * m.ReciprocityScore.num > 6 * m.ReciprocityScore.den THEN 1 ELSE 0)
    + (IF 10 * m.ExclusivityRatio.num > 9 * m.ExclusivityRatio.den THEN 2
       ELSE IF 10 * m.ExclusivityRatio.num > 7 * m.ExclusivityRatio.den THEN 1 ELSE 0)

\* The level the specification gives the points
BandLevel(points) ==
    CASE points < 2 -> "NONE"
      [] points \in {2, 3} -> "LOW"
      [] points \in {4, 5} -> "MODERATE"
      [] points \in {6, 7} -> "HIGH"
      [] OTHER -> "VERY_HIGH"

\* C15: determineSupportSuspicionLevel gives the four metrics the points of
\* their bands (ratio > 0.7: 3, > 0.5: 2, > 0.3: 1; average reaction time
\* < 10: 3, < 30: 2, < 60: 1; reciprocity > 0.8: 2, > 0.6: 1; exclusivity
\* > 0.9: 2, > 0.7: 1) and answers NONE below 2 points, LOW for 2 and 3,
\* MODERATE for 4 and 5, HIGH for 6 and 7, VERY_HIGH from 8 on; the level of
\* every reported pair is this function of the metrics stored with the pair.
C15_LevelIsFunctionOfMetrics ==
    /\ \A k \in DOMAIN scored :
          scored[k].kind = "support" => scored[k].SuspicionLevel = BandLevel(BandPoints(scored[k]))
    /\ analysis.phase = "done" =>
          \A k \in DOMAIN ReportedPairs :
              ReportedPairs[k].SuspicionLevel = BandLevel(BandPoints(ReportedPairs[k]))

\* A report with pairs of two levels.
C15_Witness ==
    /\ analysis.phase = "done"
    /\ \E k \in DOMAIN ReportedPairs : ReportedPairs[k].SuspicionLevel = "HIGH"
    /\ \E k \in DOMAIN ReportedPairs : ReportedPairs[k].SuspicionLevel = "VERY_HIGH"

\* The rank of a level, as the specification orders the levels
LevelRank(level) ==
    CASE level = "VERY_HIGH" -> 4
      [] level = "HIGH" -> 3
      [] level = "MODERATE" -> 2
      [] level = "LOW" -> 1
      [] OTHER -> 0

\* C16: the list detectMutualSupport returns has no pair of level NONE, has
\* every candidate pair with a support event and a level other than NONE, and
\* for consecutive pairs p, q: level(p) > level(q), or the levels are equal
\* and mutual_support_ratio(p) >= mutual_support_ratio(q).
C16_ReportedPairsKeptAndSorted ==
    analysis.phase = "done" =>
        /\ \A k \in DOMAIN ReportedPairs : ReportedPairs[k].SuspicionLevel # "NONE"
        /\ \A i, j \in DOMAIN analysis.commonContributors :
              (/\ i < j
               /\ ~analysis.commonContributors[i].IsAnonymous
               /\ ~analysis.commonContributors[j].IsAnonymous
               /\ Len(findSupportEvents(analysis.commonContributors[i].Username,
                                        analysis.commonContributors[j].Username,
                                        analysis.allRevisions)) > 0
               /\ EvaluatePair(analysis.commonContributors[i].Username,
                               analysis.commonContributors[j].Username,
                               analysis.allRevisions).SuspicionLevel # "NONE")
              => \E k \in DOMAIN ReportedPairs :
                    /\ ReportedPairs[k].UserA = analysis.commonContributors[i].Username
                    /\ ReportedPairs[k].UserB = analysis.commonContributors[j].Username
        /\ \A k \in 1..(Len(ReportedPairs) - 1) :
              \/ LevelRank(ReportedPairs[k].SuspicionLevel)
                    > LevelRank(ReportedPairs[k + 1].SuspicionLevel)
              \/ /\ ReportedPairs[k].SuspicionLevel = ReportedPairs[k + 1].SuspicionLevel
                 /\ ReportedPairs[k].MutualSupportRatio.num * ReportedPairs[k + 1].MutualSupportRatio.den
                       >= ReportedPairs[k + 1].MutualSupportRatio.num * ReportedPairs[k].MutualSupportRatio.den

\* A report of three pairs, the first of a higher level than the last, whose
\* pair of the highest level is not made of the two first common contributors.
C16_Witness ==
    /\ analysis.phase = "done"
    /\ Len(ReportedPairs) >= 3
    /\ LevelRank(ReportedPairs[1].SuspicionLevel) > LevelRank(ReportedPairs[Len(ReportedPairs)].SuspicionLevel)
    /\ ~(/\ ReportedPairs[1].UserA = analysis.commonContributors[1].Username
         /\ ReportedPairs[1].UserB = analysis.commonContributors[2].Username)

\* The common contributors who are not anonymous
NamedCommon ==
    {analysis.commonContributors[i].Username :
        i \in {j \in DOMAIN analysis.commonContributors :
                  ~analysis.commonContributors[j].IsAnonymous}}

\* C17: createUserPairs returns the unordered pairs of distinct common
\* contributors who are not anonymous: each such pair once and in one order
\* only, no pair with an anonymous contributor, no pair of a user with
\* themselves.
C17_UserPairsAreTheUnorderedPairs ==
    analysis.phase \in {"common", "done"} =>
        /\ \A k \in DOMAIN createUserPairs(analysis.commonContributors) :
              /\ createUserPairs(analysis.commonContributors)[k][1] \in NamedCommon
              /\ createUserPairs(analysis.commonContributors)[k][2] \in NamedCommon
              /\ createUserPairs(analysis.commonContributors)[k][1]
                    # createUserPairs(analysis.commonContributors)[k][2]
        /\ \A u, v \in NamedCommon :
              u # v =>
                 Cardinality({k \in DOMAIN createUserPairs(analysis.commonContributors) :
                     {createUserPairs(analysis.commonContributors)[k][1],
                      createUserPairs(analysis.commonContributors)[k][2]} = {u, v}}) = 1

\* Three named common contributors and an anonymous one who is not the last
\* of the list.
C17_Witness ==
    /\ analysis.phase = "common"
    /\ Cardinality(NamedCommon) = 3
    /\ \E i \in 1..(Len(analysis.commonContributors) - 1) :
          analysis.commonContributors[i].IsAnonymous

\* C18: the common contributors are identified and the mutual support is
\* detected only when every requested page has been analysed or skipped, and
\* from then on no contributor and no edit event is added to or removed from
\* the accumulators.
C18_CorrelationWaitsForAllPages ==
    [][/\ analysis'.phase \in {"common", "done"} =>
             /\ Len(analysis.outcomes) = Len(PageNames)
             /\ analysis'.outcomes = analysis.outcomes
             /\ analysis'.allContributors = analysis.allContributors
             /\ Len(analysis'.allRevisions) = Len(analysis.allRevisions)
             /\ Range(analysis'.allRevisions) = Range(analysis.allRevisions)
       /\ analysis.phase \in {"new", "pages"} =>
             analysis.commonContributors = <<>> /\ analysis.report = <<>>]_vars

\* The run is over, a page of it was skipped and the other brought common
\* contributors and edit events that the detection put in another order.
C18_Witness ==
    /\ analysis.phase = "done"
    /\ \E i \in DOMAIN analysis.outcomes : analysis.outcomes[i].err
    /\ Len(analysis.commonContributors) >= 2
    /\ Len(analysis.allRevisions) >= 2

-----------------------------------------------------------------------------
(* Claims on the edit-war window detector *)

HistoryActors(i) == {detailedHistory[j].User : j \in i..(i + 4)}

HistorySpan(i) == detailedHistory[i + 4].Timestamp - detailedHistory[i].Timestamp

\* The windows of five consecutive revisions spanning at most 24 hours.
ShortWindows == {i \in 1..(Len(detailedHistory) - 4) : HistorySpan(i) <= 86400}

\* The k-th smallest element of a finite set of integers.
Nth(S, k) == CHOOSE i \in S : Cardinality({j \in S : j < i}) = k - 1

\* C6: for a time-ordered revision sequence of length n, detectEditWarPeriods emits
\* exactly one period for each index i with ts[i+4] - ts[i] <= 24 hours, in index
\* order, whose participants are the distinct actors of revisions i..i+4 and whose
\* revision_count is 5; none when n < 5; and 5 revisions by 3 actors within one hour
\* give exactly one period with 3 participants.
C6_EditWarOnePeriodPerShortWindow ==
    pc = "done" =>
        /\ Len(editWarPeriods) = Cardinality(ShortWindows)
        /\ \A k \in 1..Len(editWarPeriods) :
              LET i == Nth(ShortWindows, k)
              IN  /\ editWarPeriods[k].StartTime = detailedHistory[i].Timestamp
                  /\ editWarPeriods[k].EndTime = detailedHistory[i + 4].Timestamp
                  /\ editWarPeriods[k].Participants = HistoryActors(i)
                  /\ editWarPeriods[k].RevisionCount = 5
        /\ (Len(detailedHistory) < 5 => editWarPeriods = <<>>)
        /\ (Len(detailedHistory) = 5 /\ HistorySpan(1) <= 3600
                /\ Cardinality(HistoryActors(1)) = 3
              => /\ Len(editWarPeriods) = 1
                 /\ Cardinality(editWarPeriods[1].Participants) = 3)
        /\ (Len(detailedHistory) = 5 /\ HistorySpan(1) > 86400 => editWarPeriods = <<>>)

\* Five revisions by three actors within one hour were analysed and gave one period;
\* and a window of exactly 24 hours was emitted.
C6_Witness ==
    /\ pc = "done"
    /\ Len(detailedHistory) = 5
    /\ HistorySpan(1) = 3600
    /\ Cardinality(HistoryActors(1)) = 3
    /\ Len(editWarPeriods) = 1

\* C7 as stated: any two distinct periods emitted for one revision sequence have
\* non-overlapping [start_time, end_time] intervals.
C7_PeriodsNeverOverlap ==
    pc = "done" =>
        \A k1, k2 \in 1..Len(editWarPeriods) :
            k1 < k2 =>
                \/ editWarPeriods[k1].EndTime < editWarPeriods[k2].StartTime
                \/ editWarPeriods[k2].EndTime < editWarPeriods[k1].StartTime

\* C7 amended: periods whose windows share no revision (start indexes at least 5
\* apart) do not overlap beyond a shared instant: the earlier one ends no later than
\* the later one starts.  Windows that share a revision may overlap.
C7_DisjointWindowsDoNotOverlap ==
    pc = "done" =>
        LET q == QualifyingWindows(detailedHistory)
        IN  \A k1, k2 \in 1..Len(editWarPeriods) :
                q[k2] >= q[k1] + windowSize =>
                    editWarPeriods[k1].EndTime <= editWarPeriods[k2].StartTime

\* Two periods from windows sharing no revision were emitted, and two from
\* adjacent windows that overlap.
C7_Witness ==
    /\ pc = "done"
    /\ Len(editWarPeriods) >= 3
    /\ LET q == QualifyingWindows(detailedHistory)
       IN  /\ \E k1, k2 \in 1..Len(editWarPeriods) : q[k2] >= q[k1] + windowSize
           /\ \E k1, k2 \in 1..Len(editWarPeriods) :
                 /\ q[k2] = q[k1] + 1
                 /\ editWarPeriods[k2].StartTime < editWarPeriods[k1].EndTime

-----------------------------------------------------------------------------
(* Claims on the support events of a pair *)

\* The (i, j) of the sorted events a support event can have come from: it carries
\* the second edit's revision id, the first edit's author and the reaction minutes.
SourcePairs(event) ==
    {p \in (1..Len(allRevisions)) \X (1..Len(allRevisions)) :
        /\ p[1] < p[2]
        /\ allRevisions[p[2]].RevisionID = event.RevisionID
        /\ allRevisions[p[1]].Username = event.AttackerUser
        /\ (allRevisions[p[2]].Timestamp - allRevisions[p[1]].Timestamp) \div 60
              = event.ReactionTime}

\* C3: no support event returned by findSupportEvents has an actual reaction time
\* (e2.timestamp - e1.timestamp) strictly greater than max_reaction_time_minutes
\* minutes.
C3_NoSupportEventLaterThanMax ==
    pc = "done" =>
        \A k \in 1..Len(pairAB.SupportEvents) :
            \A p \in SourcePairs(pairAB.SupportEvents[k]) :
                allRevisions[p[2]].Timestamp - allRevisions[p[1]].Timestamp
                    <= MaxReactionTime * 60

\* C4: taking the pair as (A,B) or as (B,A) yields the same list of support
\* events, the same four metrics and the same suspicion level.
C4_PairOrderIrrelevant ==
    pc = "done" =>
        /\ pairAB.SupportEvents = pairBA.SupportEvents
        /\ pairAB.MutualSupportRatio = pairBA.MutualSupportRatio
        /\ pairAB.AverageReactionTime = pairBA.AverageReactionTime
        /\ pairAB.ReciprocityScore = pairBA.ReciprocityScore
        /\ pairAB.ExclusivityRatio = pairBA.ExclusivityRatio
        /\ pairAB.SuspicionLevel = pairBA.SuspicionLevel

\* The pair was evaluated on events in which A defended and B defended, with an
\* outsider among the authors.
C4_Witness ==
    /\ pc = "done"
    /\ Len(pairAB.SupportEvents) >= 2
    /\ \E k \in 1..Len(pairAB.SupportEvents) : pairAB.SupportEvents[k].DefenderUser = "A"
    /\ \E k \in 1..Len(pairAB.SupportEvents) : pairAB.SupportEvents[k].DefenderUser = "B"
    /\ \E i \in 1..Len(allRevisions) : allRevisions[i].Username = "C"
    /\ pairBA.UserA = "B"

\* C5: when each of A's five edits is reverted by B within 10 minutes, all within
\* two hours, and A never reverts B, then for the pair (A,B) every support event
\* has B as defender, reciprocity_score = 0, average_reaction_time lies between 5
\* and 10 minutes, and the level is at least MODERATE.
C5_ScenarioOnlyBDefends ==
    pc = "done" =>
        /\ \A k \in 1..Len(pairAB.SupportEvents) :
              pairAB.SupportEvents[k].DefenderUser = "B"
        /\ pairAB.ReciprocityScore.num = 0
        /\ pairAB.AverageReactionTime >= 5
        /\ pairAB.AverageReactionTime <= 10
        /\ pairAB.SuspicionLevel \in {"MODERATE", "HIGH", "VERY_HIGH"}

-----------------------------------------------------------------------------
(* Claims about the search for support events *)

\* The pair of A and B has been evaluated on the sorted events.
PairEvaluated == pc = "done" /\ pairAB # <<>>

\* The edits at positions i < j of the sorted events pass isSupportEvent for the
\* pair of A and B and lie within the reaction-time limit.
QualifiesAsSupport(i, j) ==
    /\ i < j
    /\ isSupportEvent(allRevisions[i], allRevisions[j], "A", "B")
    /\ ReactionMinutes(allRevisions[i], allRevisions[j]) <= MaxReactionTime

\* The support event made of the edits at positions i and j is among the
\* support events of the pair.
SupportEventReported(i, j) ==
    \E k \in DOMAIN pairAB.SupportEvents :
        pairAB.SupportEvents[k] =
            SupportEventOf(allRevisions[i], allRevisions[j], "A", "B")

\* C21: for every event e1 at position i of the sorted event list each of the
\* next 10 events (positions i+1 .. i+10) is examined as e2: one that is on the
\* same page, by another actor who belongs to the pair, qualifies as support and
\* lies within the reaction-time limit produces a support event.
C21_NextTenEventsExamined ==
    PairEvaluated =>
        \A i \in DOMAIN allRevisions :
            \A j \in (i + 1)..Min(Len(allRevisions), i + 10) :
                QualifiesAsSupport(i, j) => SupportEventReported(i, j)

\* The two edits findSupportEvents has been applied to, and what it returned
EditPair == scored[1]

\* C22: the content-restoration condition is inclusive at its thresholds: an
\* edit removing exactly 100 characters followed by one adding exactly 50,
\* neither a revert and the second without defensive keyword, is a support event.
C22_RestorationInclusiveAtThresholds ==
    ( /\ Scored("edit pair")
      /\ EditPair.edit1.SizeDiff = -100
      /\ EditPair.edit2.SizeDiff = 50
      /\ ~EditPair.edit1.IsRevert
      /\ ~EditPair.edit2.IsRevert
      /\ ~isDefensiveEdit(EditPair.edit1, EditPair.edit2) )
    => Len(EditPair.events) = 1

-----------------------------------------------------------------------------
(* Claims about the classification of comments *)

\* The comment the three analyzers have classified, with their answers
Classified == scored[1]

\* C23: there is a single revert classification: for every language and every
\* comment the is_revert value computed for page revisions and edit events, for
\* a single analyzed edit and by the user-level resolver are equal.
C23_SingleRevertClassification ==
    Scored("comment") =>
        /\ Classified.page = Classified.edit
        /\ Classified.edit = Classified.user

-----------------------------------------------------------------------------
(* Claims about the blocked user *)

\* The account record GetUserInfo returned for the scored user carries a block.
CarriesBlock(userInfo) == userInfo.BlockedBy # "" /\ userInfo.BlockExpiry # ""

\* C24: the contributor-level rule USER_BLOCKED (weight 30) fires for every user
\* whose fetched user info carries an active block, a block without end (expiry
\* "infinity") included.
C24_BlockedUserIsFlagged ==
    (Scored("user") /\ CarriesBlock(scored[1].userInfo)) =>
        /\ scored[1].BlockInfo.Blocked
        /\ "USER_BLOCKED" \in Range(scored[1].SuspicionFlags)

-----------------------------------------------------------------------------
(* Claims about the pairs that have a support event *)

IsOne(r) == r.num = r.den /\ r.den > 0

\* Every support event of the pair has one user of the pair as its defender and
\* the other one as its supported user.
EventsAreMutual(pair) ==
    \A k \in DOMAIN pair.SupportEvents :
        LET e == pair.SupportEvents[k]
        IN  \/ e.DefenderUser = pair.UserA /\ e.SupportedUser = pair.UserB
            \/ e.DefenderUser = pair.UserB /\ e.SupportedUser = pair.UserA

PointsOf(pair) ==
    SupportPoints(pair.MutualSupportRatio, pair.AverageReactionTime,
                  pair.ReciprocityScore, pair.ExclusivityRatio)

HasFullRatios(pair) ==
    /\ EventsAreMutual(pair)
    /\ IsOne(pair.MutualSupportRatio)
    /\ IsOne(pair.ExclusivityRatio)
    /\ PointsOf(pair) >= 5
    /\ pair.SuspicionLevel \in {"MODERATE", "HIGH", "VERY_HIGH"}
    /\ IsReported(pair)

\* C25: for every candidate pair with at least one support event the mutual
\* support ratio and the exclusivity ratio are 1, so its points are at least 5,
\* its level is at least MODERATE and the pair is never dropped as NONE.
C25_PairWithEventsHasFullRatios ==
    PairEvaluated =>
        /\ Len(pairAB.SupportEvents) >= 1 => HasFullRatios(pairAB)
        /\ Len(pairBA.SupportEvents) >= 1 => HasFullRatios(pairBA)

\* A pair with support events that has exactly the 5 points of the two ratios
C25_Witness ==
    /\ PairEvaluated
    /\ Len(pairAB.SupportEvents) >= 1
    /\ PointsOf(pairAB) = 5
    /\ pairAB.SuspicionLevel = "MODERATE"

-----------------------------------------------------------------------------
(* Claims about the roles in a support event *)

\* Defender, attacker and supported user of the event are three users.
RolesAreDistinct(e) ==
    /\ e.DefenderUser # e.AttackerUser
    /\ e.DefenderUser # e.SupportedUser
    /\ e.AttackerUser # e.SupportedUser

\* C26: in every support event produced for a pair the three roles are
\* consistent with one actor defending another against a third action: the
\* defender is not the attacker, the defender is not the supported user, and the
\* supported user is not the author of the edit being reacted to.
C26_RolesAreDistinct ==
    PairEvaluated =>
        \A k \in DOMAIN pairAB.SupportEvents : RolesAreDistinct(pairAB.SupportEvents[k])

-----------------------------------------------------------------------------
(* Claims about the accumulated contributors *)

NoDuplicate(s) == \A i, j \in DOMAIN s : s[i] = s[j] => i = j

RECURSIVE SumOfEdits(_, _)
SumOfEdits(editsByPage, pages) ==
    IF pages = {} THEN 0
    ELSE LET p == CHOOSE q \in pages : TRUE
         IN  editsByPage[p] + SumOfEdits(editsByPage, pages \ {p})

ConsistentContributor(c) ==
    /\ NoDuplicate(c.PagesEdited)
    /\ Range(c.PagesEdited) = DOMAIN c.EditsByPage
    /\ c.TotalEdits = SumOfEdits(c.EditsByPage, DOMAIN c.EditsByPage)
    /\ Len(c.PagesEdited) > 1 => Cardinality(Range(c.PagesEdited)) >= 2

\* C27: after extractContributors has been applied for any sequence of page
\* names, a title given more than once included, every accumulated contributor
\* is consistent: pages_edited holds no title twice and is the key set of
\* edits_by_page, total_edits is the sum of the edits_by_page values, and more
\* than one page edited means at least two distinct pages.
C27_AccumulatedContributorsConsistent ==
    /\ \A c \in analysis.allContributors : ConsistentContributor(c)
    /\ \A k \in DOMAIN analysis.commonContributors :
           ConsistentContributor(analysis.commonContributors[k])

-----------------------------------------------------------------------------
(* Claims about the edit-war periods of any revision list *)

\* C28: every EditWarPeriod emitted by detectEditWarPeriods starts no later than
\* it ends and spans at most 24 hours, for every revision list, those not in
\* ascending time order and those with malformed timestamps (read as the zero
\* time) included.
C28_PeriodStartsBeforeEndWithinDay ==
    \A k \in DOMAIN editWarPeriods :
        /\ editWarPeriods[k].StartTime <= editWarPeriods[k].EndTime
        /\ editWarPeriods[k].EndTime - editWarPeriods[k].StartTime <= Day

-----------------------------------------------------------------------------
(* Claims about the times of a revocation *)

\* The record names the edit that was undone.
NamesOriginal(revocation) == revocation.OriginalContrib.RevID # 0

\* C29: every RevokedContribution that names an original edit links it to a
\* later undoing edit: revoked_at >= original.timestamp, for any contribution
\* list passed to detectDirectRevocations (the newest-first order of the
\* contributions fetch included) and any page history passed to findUserReverts.
C29_RevokedAtNotBeforeOriginal ==
    \A k \in DOMAIN revocations :
        NamesOriginal(revocations[k]) =>
            revocations[k].RevokedAt >= revocations[k].OriginalContrib.Timestamp

-----------------------------------------------------------------------------
(* Claims about the size deltas of the converted revisions *)

\* C30: convertRevisions gives each revision its true size delta: for every
\* revision of the list whose parent (by parent id) is in the list too,
\* size_diff = new_size - parent.new_size, whether the list is newest first or
\* oldest first.
C30_SizeDiffIsDeltaToParent ==
    \A i, j \in DOMAIN recentRevisions :
        recentRevisions[j].RevID = recentRevisions[i].ParentID =>
            recentRevisions[i].SizeDiff
                = recentRevisions[i].NewSize - recentRevisions[j].NewSize

=============================================================================
